---- MODULE Spec2Model ----
(***************************************************************************)
(* Legal case analyzer: the enhanced analysis orchestrator                 *)
(* (backend/main_enhanced.py) and the analysis tools it drives             *)
(* (backend/legal_tools.py).                                               *)
(*                                                                         *)
(* POST /analyze is an async handler, but execute_step and every tool it   *)
(* invokes are synchronous calls, so one request runs from its first line  *)
(* to its response without yielding to another request.  The request in    *)
(* flight is kept in req together with its position; no other handler      *)
(* starts while req is set.                                                *)
(***************************************************************************)
EXTENDS Integers, Sequences, FiniteSets, TLC

VARIABLES session_storage, tool_execution_log, session_activity_log,
          req, response, failed, disturbances, call, pending,
          chat_storage, run, chat_response, db, op, streams

vars == <<session_storage, tool_execution_log, session_activity_log,
          req, response, failed, disturbances, call, pending,
          chat_storage, run, chat_response, db, op, streams>>

service_vars == <<db, op, streams>>

----------------------------------------------------------------------------
(* Bounds of the exploration *)

\* Step failures (500 responses) and session deletions explored in one
\* behaviour, counted together in disturbances.
MaxDisturbances == 1

----------------------------------------------------------------------------
(* Enumerations *)

CIVIL_LAW == "Civil-law jurisdiction"
COMMON_LAW == "Common-law jurisdiction"
NO_COURT_DECISION == "No court decision"
None == "None"

JurisdictionType == {CIVIL_LAW, COMMON_LAW, NO_COURT_DECISION}

AnalysisPattern == {"sequential", "parallel", "comprehensive", "quick"}

AnalysisStage ==
    {"jurisdiction_detection", "col_extraction", "theme_classification",
     "fact_analysis", "pil_provisions", "col_issue", "courts_position",
     "obiter_dicta", "dissenting_opinions", "abstract", "complete"}

NA_CIVIL == "N/A - Not applicable for civil law jurisdiction"

Sessions == {"s1"}

NoSession == [absent |-> TRUE]
NoReq == [pc |-> "idle"]
NoResponse == [kind |-> "none", status |-> 0]
\* failed remembers the step that raised in the last request and the
\* pattern of that request, until the next request ends.
NoFailure == [step |-> None, pattern |-> None]
\* call holds the last call of a tool made outside a request (the tools
\* specification); no request changes it.
NoCall == [tool |-> "none"]
\* pending holds the requests the server has accepted and whose handler the
\* event loop has not started yet (the concurrent-requests specification).
\* chat_storage is the session_storage of the legacy chat application
\* (backend/main.py), run the agent/tools graph run of the chat request in
\* flight, chat_response the answer to the last chat request.

----------------------------------------------------------------------------
(* Inputs of a request *)

\* A text is known by its raw length and the length of text.strip().
ShortText == [raw |-> 52, stripped |-> 49]
LongText == [raw |-> 50, stripped |-> 50]
Texts == {ShortText, LongText}

\* Citations are sequences of characters; the citation is what the
\* detect_jurisdiction tool hands to the classifier as jurisdiction name.
CitUSA == <<"U", "S", "A">>
CitBGH == <<"B", "G", "H">>
Citations == {CitUSA, CitBGH}

----------------------------------------------------------------------------
(* Completion Service *)

\* Free-text responses (already stripped of outer whitespace).
Responses == {"r1"}

----------------------------------------------------------------------------
(* JurisdictionDetector (legal_tools.py) *)

MIN_TEXT_LENGTH == 50

UpperChars == <<"A", "B", "C", "D", "E", "F", "G", "H", "I", "J", "K", "L", "M",
                "N", "O", "P", "Q", "R", "S", "T", "U", "V", "W", "X", "Y", "Z">>
LowerChars == <<"a", "b", "c", "d", "e", "f", "g", "h", "i", "j", "k", "l", "m",
                "n", "o", "p", "q", "r", "s", "t", "u", "v", "w", "x", "y", "z">>

LowerChar(c) ==
    IF \E i \in 1..Len(UpperChars) : UpperChars[i] = c
    THEN LowerChars[CHOOSE i \in 1..Len(UpperChars) : UpperChars[i] = c]
    ELSE c

\* str.lower()
Lower(s) == [i \in 1..Len(s) |-> LowerChar(s[i])]

\* a in b, for strings
IsSubstring(a, b) ==
    \E i \in 0..(Len(b) - Len(a)) : SubSeq(b, i + 1, i + Len(a)) = a

\* The entries of the static table this model keeps (of about 130).
civil_law == {<<"p", "e", "r", "u">>, <<"g", "e", "o", "r", "g", "i", "a">>}
common_law == {<<"u", "s", "a">>, <<"i", "n", "d", "i", "a">>}

get_jurisdiction_mapping ==
    [k \in civil_law \cup common_law |->
        IF k \in common_law THEN COMMON_LAW ELSE CIVIL_LAW]

NullNames == {<<"u", "n", "k", "n", "o", "w", "n">>, <<"n", "/", "a">>,
              <<"n", "o", "n", "e">>}

\* detect_by_name looking the name up as it is written
detect_by_name_as_written(jurisdiction_name) ==
    LET mapping == get_jurisdiction_mapping
        partial == {k \in DOMAIN mapping :
                       IsSubstring(k, jurisdiction_name)
                       \/ IsSubstring(jurisdiction_name, k)}
    IN  IF jurisdiction_name = <<>> \/ jurisdiction_name \in NullNames
        THEN {None}
        ELSE IF jurisdiction_name \in DOMAIN mapping
        THEN {mapping[jurisdiction_name]}
        ELSE IF partial # {}
        THEN {mapping[k] : k \in partial}
        ELSE {None}

\* Orders of the keys with no regard to the loops that fill the table
TableOrdersUnordered ==
    LET keys == civil_law \cup common_law
    IN  {o \in [1..Cardinality(keys) -> keys] :
            \A a, b \in DOMAIN o : a # b => o[a] # o[b]}

\* Orders in which mapping.items() can yield the keys.  The table is a dict
\* filled by a loop over the set civil_law and then a loop over the set
\* common_law: the order inside each set differs from process to process,
\* and a dict keeps the order of insertion, so every civil-law key comes
\* before every common-law key.
TableOrders ==
    LET keys == civil_law \cup common_law
    IN  {o \in [1..Cardinality(keys) -> keys] :
            /\ \A a, b \in DOMAIN o : a # b => o[a] # o[b]
            /\ \A a, b \in DOMAIN o :
                    (o[a] \in civil_law /\ o[b] \notin civil_law) => a < b}

\* detect_by_name with the table yielding its keys in the given order
detect_by_name_in(jurisdiction_name, order) ==
    LET mapping == get_jurisdiction_mapping
        jurisdiction_lower == Lower(jurisdiction_name)
        partial == {i \in DOMAIN order :
                       IsSubstring(order[i], jurisdiction_lower)
                       \/ IsSubstring(jurisdiction_lower, order[i])}
    IN  IF jurisdiction_name = <<>> \/ jurisdiction_lower \in NullNames
        THEN None
        ELSE IF jurisdiction_lower \in DOMAIN mapping
        THEN mapping[jurisdiction_lower]
        ELSE IF partial # {}
        THEN mapping[order[CHOOSE i \in partial : \A j \in partial : i <= j]]
        ELSE None

\* detect_by_name: the set of values a call can return, over the orders the
\* table can have.
detect_by_name(jurisdiction_name) ==
    {detect_by_name_in(jurisdiction_name, order) : order \in TableOrders}

\* What the classifier reads in a response of the Completion Service: the
\* set of labels that occur in it, letter case ignored.
ClassifierResponses == SUBSET JurisdictionType

allowed == <<CIVIL_LAW, COMMON_LAW, NO_COURT_DECISION>>

\* detect_by_llm without the default for a response that holds no label
detect_by_llm_no_default(result) ==
    IF \E i \in 1..Len(allowed) : allowed[i] \in result
    THEN allowed[CHOOSE i \in 1..Len(allowed) :
                    /\ allowed[i] \in result
                    /\ \A j \in 1..(i - 1) : allowed[j] \notin result]
    ELSE None

\* detect_by_llm, given the response: the first allowed label it contains
detect_by_llm(result) ==
    IF \E i \in 1..Len(allowed) : allowed[i] \in result
    THEN allowed[CHOOSE i \in 1..Len(allowed) :
                    /\ allowed[i] \in result
                    /\ \A j \in 1..(i - 1) : allowed[j] \notin result]
    ELSE NO_COURT_DECISION

\* precise_jurisdiction = None (a name is never the empty string once set)
NoName == <<>>

Unknown == <<"U", "n", "k", "n", "o", "w", "n">>

\* An outcome of a tool: its value and the Completion Service calls made,
\* or the exception of the call that raised.
Ok(v, n) == [ok |-> TRUE, result |-> v, calls |-> n]
Raised(n) == [ok |-> FALSE, calls |-> n]

\* detect with the test of the text length lost
detect_any_length(jurisdiction_name, text) ==
      {Ok([jurisdiction_type |-> name_result,
           precise_jurisdiction |-> jurisdiction_name,
           confidence |-> "high",
           method |-> "name_mapping"], 0) :
         name_result \in detect_by_name(jurisdiction_name) \ {None}}
      \cup
      (IF None \in detect_by_name(jurisdiction_name)
       THEN {Raised(1)} \cup
            {Ok([jurisdiction_type |-> detect_by_llm(r),
                 precise_jurisdiction |->
                     IF jurisdiction_name # <<>> THEN jurisdiction_name ELSE Unknown,
                 confidence |-> "medium",
                 method |-> "llm_analysis"], 1) : r \in ClassifierResponses}
       ELSE {})

\* JurisdictionDetector.detect: the outcomes of one call
detect(jurisdiction_name, text) ==
    IF text.raw = 0 \/ text.stripped < MIN_TEXT_LENGTH
    THEN {Ok([jurisdiction_type |-> NO_COURT_DECISION,
              precise_jurisdiction |->
                  IF jurisdiction_name # <<>> THEN jurisdiction_name ELSE Unknown,
              confidence |-> "high",
              method |-> "text_length"], 0)}
    ELSE
      {Ok([jurisdiction_type |-> name_result,
           precise_jurisdiction |-> jurisdiction_name,
           confidence |-> "high",
           method |-> "name_mapping"], 0) :
         name_result \in detect_by_name(jurisdiction_name) \ {None}}
      \cup
      (IF None \in detect_by_name(jurisdiction_name)
       THEN {Raised(1)} \cup
            {Ok([jurisdiction_type |-> detect_by_llm(r),
                 precise_jurisdiction |->
                     IF jurisdiction_name # <<>> THEN jurisdiction_name ELSE Unknown,
                 confidence |-> "medium",
                 method |-> "llm_analysis"], 1) : r \in ClassifierResponses}
       ELSE {})

----------------------------------------------------------------------------
(* Extraction tools (legal_tools.py) *)

\* One Completion Service call whose stripped content is the result.
OneCall == {Raised(1)} \cup {Ok(r, 1) : r \in Responses}

\* ChoiceOfLawExtractor.extract
extract(text, jurisdiction_type) == OneCall

\* JSON values inside a parsed list
JStr(s) == [type |-> "string", text |-> s]
JNum(s) == [type |-> "number", text |-> s]

\* The themes of VALID_THEMES this model keeps (of 20), in list order.
VALID_THEMES == <<"Choice of Law Clauses", "Cross-border Transactions", "Party Autonomy">>

ValidThemeSet == {VALID_THEMES[i] : i \in 1..Len(VALID_THEMES)}

\* Responses to the theme prompt: JSON lists, JSON of another type, and
\* text that is no JSON; mentions holds the themes whose name occurs in the
\* response, letter case ignored.
ThemeResponses ==
    {[kind |-> "json_list", items |-> <<JStr("Invented Theme"), JStr("Party Autonomy")>>,
      mentions |-> {"Party Autonomy"}],
     [kind |-> "json_list", items |-> <<JStr("Invented Theme")>>, mentions |-> {}],
     [kind |-> "json_list", items |-> <<JStr("party autonomy")>>,
      mentions |-> {"Party Autonomy"}],
     [kind |-> "json_other", items |-> <<>>, mentions |-> {}],
     [kind |-> "text", items |-> <<>>, mentions |-> {"Party Autonomy", "Choice of Law Clauses"}],
     [kind |-> "text", items |-> <<>>, mentions |-> {}]}

IsValidTheme(j) == j.type = "string" /\ j.text \in ValidThemeSet

\* valid_themes keeping every string of the list
valid_themes_unfiltered(items) ==
    LET kept == SelectSeq(items, LAMBDA j : j.type = "string")
    IN  [i \in 1..Len(kept) |-> kept[i].text]

\* [theme for theme in themes if theme in cls.VALID_THEMES]
valid_themes(items) ==
    LET kept == SelectSeq(items, IsValidTheme)
    IN  [i \in 1..Len(kept) |-> kept[i].text]

\* themes of VALID_THEMES found in the response text, in vocabulary order
themes_in_text(mentions) ==
    SelectSeq(VALID_THEMES, LAMBDA t : t \in mentions)

max_attempts == 3

\* What one response settles: a result, or <<>> when the loop goes on.
classify_attempt(r) ==
    CASE r.kind = "json_list" -> valid_themes(r.items)
      [] r.kind = "json_other" -> <<>>
      [] OTHER -> themes_in_text(r.mentions)

RECURSIVE classify_from(_)
\* ThemeClassifier.classify from attempt number a (1-based) on
classify_from(a) ==
    IF a > max_attempts
    THEN {Ok(<<"Cross-border Transactions">>, max_attempts)}
    ELSE {Raised(a)} \cup
         UNION {IF classify_attempt(r) # <<>>
                THEN {Ok(classify_attempt(r), a)}
                ELSE classify_from(a + 1) : r \in ThemeResponses}

\* ThemeClassifier.classify
classify(text, col_section, jurisdiction_type) == classify_from(1)

\* CaseAnalyzer.analyze_relevant_facts
analyze_relevant_facts(text, col_section, jurisdiction_type) == OneCall

\* Responses to the provisions prompt
ProvisionResponses ==
    {[kind |-> "json_list", items |-> <<JStr("Art. 187, PILA")>>],
     [kind |-> "json_list", items |-> <<JNum("187")>>],
     [kind |-> "json_other", items |-> <<>>],
     [kind |-> "text", items |-> <<>>]}

\* provisions if isinstance(provisions, list) else ["NA"]; ["NA"] as well
\* when the response is no JSON
parse_provisions(r) ==
    IF r.kind = "json_list" THEN r.items ELSE <<JStr("NA")>>

\* CaseAnalyzer.identify_pil_provisions
identify_pil_provisions(text, col_section, jurisdiction_type) ==
    {Raised(1)} \cup {Ok(parse_provisions(r), 1) : r \in ProvisionResponses}

\* CaseAnalyzer.identify_col_issue
identify_col_issue(text, col_section, themes, jurisdiction_type) == OneCall

\* CaseAnalyzer.analyze_courts_position
analyze_courts_position(text, col_section, col_issue, themes, jurisdiction_type) == OneCall

\* CaseAnalyzer.extract_obiter_dicta
extract_obiter_dicta(text, col_section, jurisdiction_type) ==
    IF jurisdiction_type # COMMON_LAW THEN {Ok(NA_CIVIL, 0)} ELSE OneCall

\* CaseAnalyzer.extract_dissenting_opinions
extract_dissenting_opinions(text, col_section, jurisdiction_type) ==
    IF jurisdiction_type # COMMON_LAW THEN {Ok(NA_CIVIL, 0)} ELSE OneCall

\* CaseAnalyzer.generate_abstract
generate_abstract(case_data) == OneCall

\* ", ".join(parts): a string as the sequence of its pieces
RECURSIVE Join(_)
Join(parts) ==
    IF Len(parts) = 0 THEN <<>>
    ELSE IF Len(parts) = 1 THEN <<parts[1]>>
    ELSE <<parts[1], ", ">> \o Join(Tail(parts))

\* s.split(", ")
RECURSIVE Split(_)
Split(s) ==
    IF \A i \in 1..Len(s) : s[i] # ", "
    THEN <<s>>
    ELSE LET k == CHOOSE i \in 1..Len(s) :
                     s[i] = ", " /\ \A j \in 1..(i - 1) : s[j] # ", "
         IN  <<SubSeq(s, 1, k - 1)>> \o Split(SubSeq(s, k + 1, Len(s)))

----------------------------------------------------------------------------
(* AnalysisState and the orchestrator (main_enhanced.py) *)

\* AnalysisState(session_id, case_citation, full_text) after __post_init__
AnalysisState(sid, citation, text) ==
    [session_id |-> sid,
     case_citation |-> citation,
     full_text |-> text,
     jurisdiction |-> None,
     precise_jurisdiction |-> NoName,
     col_section |-> <<>>,
     classification |-> <<>>,
     relevant_facts |-> <<>>,
     pil_provisions |-> <<>>,
     col_issue |-> <<>>,
     courts_position |-> <<>>,
     obiter_dicta |-> <<>>,
     dissenting_opinions |-> <<>>,
     abstract |-> <<>>,
     analysis_stage |-> "jurisdiction_detection",
     chat_history |-> <<>>,
     analysis_done |-> FALSE]

\* get_analysis_pipeline with the themes classified before the section is
\* extracted
get_analysis_pipeline_themes_first(jurisdiction_type) ==
    <<"detect_jurisdiction", "classify_themes", "extract_col_section",
      "analyze_relevant_facts", "identify_pil_provisions", "identify_col_issue",
      "analyze_courts_position">>
    \o (IF jurisdiction_type = COMMON_LAW
        THEN <<"extract_obiter_dicta", "extract_dissenting_opinions">>
        ELSE <<>>)
    \o <<"generate_abstract">>

\* get_analysis_pipeline extending the base pipeline for every family
get_analysis_pipeline_ungated(jurisdiction_type) ==
    <<"detect_jurisdiction", "extract_col_section", "classify_themes",
      "analyze_relevant_facts", "identify_pil_provisions", "identify_col_issue",
      "analyze_courts_position", "extract_obiter_dicta",
      "extract_dissenting_opinions", "generate_abstract">>

\* LegalAnalysisOrchestrator.get_analysis_pipeline
get_analysis_pipeline(jurisdiction_type) ==
    <<"detect_jurisdiction", "extract_col_section", "classify_themes",
      "analyze_relevant_facts", "identify_pil_provisions", "identify_col_issue",
      "analyze_courts_position">>
    \o (IF jurisdiction_type = COMMON_LAW
        THEN <<"extract_obiter_dicta", "extract_dissenting_opinions">>
        ELSE <<>>)
    \o <<"generate_abstract">>

\* state.jurisdiction or JurisdictionType.CIVIL_LAW
JurisdictionOrCivil(state) ==
    IF state.jurisdiction # None THEN state.jurisdiction ELSE CIVIL_LAW

\* state.jurisdiction.value if state.jurisdiction else "Civil-law jurisdiction"
JurisdictionArg(state) == JurisdictionOrCivil(state)

\* xs[-1] if xs else ""
LastOrEmpty(xs) == IF Len(xs) > 0 THEN xs[Len(xs)] ELSE ""

\* state.classification[-1].split(", ") if state.classification else []
ThemesArg(state) ==
    IF Len(state.classification) > 0
    THEN Split(state.classification[Len(state.classification)])
    ELSE <<>>

\* The tool call of execute_step, by step name, with the arguments read
\* from the state.
InvokeTool(step_name, state) ==
    CASE step_name = "detect_jurisdiction" ->
            detect(state.case_citation, state.full_text)
      [] step_name = "extract_col_section" ->
            extract(state.full_text, JurisdictionArg(state))
      [] step_name = "classify_themes" ->
            classify(state.full_text, LastOrEmpty(state.col_section), JurisdictionArg(state))
      [] step_name = "analyze_relevant_facts" ->
            analyze_relevant_facts(state.full_text, LastOrEmpty(state.col_section),
                                   JurisdictionArg(state))
      [] step_name = "identify_pil_provisions" ->
            identify_pil_provisions(state.full_text, LastOrEmpty(state.col_section),
                                    JurisdictionArg(state))
      [] step_name = "identify_col_issue" ->
            identify_col_issue(state.full_text, LastOrEmpty(state.col_section),
                               ThemesArg(state), JurisdictionArg(state))
      [] step_name = "analyze_courts_position" ->
            analyze_courts_position(state.full_text, LastOrEmpty(state.col_section),
                                    LastOrEmpty(state.col_issue), ThemesArg(state),
                                    JurisdictionArg(state))
      [] step_name = "extract_obiter_dicta" ->
            extract_obiter_dicta(state.full_text, LastOrEmpty(state.col_section),
                                 JurisdictionArg(state))
      [] step_name = "extract_dissenting_opinions" ->
            extract_dissenting_opinions(state.full_text, LastOrEmpty(state.col_section),
                                        JurisdictionArg(state))
      [] step_name = "generate_abstract" ->
            generate_abstract([jurisdiction |-> state.jurisdiction,
                               classification |-> state.classification,
                               relevant_facts |-> LastOrEmpty(state.relevant_facts),
                               pil_provisions |-> state.pil_provisions,
                               col_issue |-> LastOrEmpty(state.col_issue),
                               courts_position |-> LastOrEmpty(state.courts_position)])

\* execution_entry of execute_step
ExecutionEntry(step_name, state, status) ==
    [session_id |-> state.session_id,
     tool_name |-> step_name,
     status |-> status,
     jurisdiction |-> state.jurisdiction]

\* LoggedGlobal writing the final status into the oldest entry of the log
LoggedGlobalOldest(log, step_name, state, status) ==
    LET started == Append(log, ExecutionEntry(step_name, state, "started"))
    IN  [started EXCEPT ![1] = ExecutionEntry(step_name, state, status)]

\* tool_execution_log after one execute_step: the entry is appended with
\* status started, and the last entry is updated with the final status.
LoggedGlobal(log, step_name, state, status) ==
    LET started == Append(log, ExecutionEntry(step_name, state, "started"))
    IN  [started EXCEPT ![Len(started)] = ExecutionEntry(step_name, state, status)]

\* session_activity_log after one execute_step
LoggedSession(slog, step_name, state, status) ==
    LET sid == state.session_id
        had == IF sid \in DOMAIN slog THEN slog[sid] ELSE <<>>
        started == Append(had, ExecutionEntry(step_name, state, "started"))
        final == [started EXCEPT ![Len(started)] = ExecutionEntry(step_name, state, status)]
    IN  [k \in DOMAIN slog \cup {sid} |-> IF k = sid THEN final ELSE slog[k]]

FinalStatus(outcome) == IF outcome.ok THEN "completed" ELSE "error"

\* The names of the orchestrator's tools
AllSteps == {"detect_jurisdiction", "extract_col_section", "classify_themes",
             "analyze_relevant_facts", "identify_pil_provisions",
             "identify_col_issue", "analyze_courts_position",
             "extract_obiter_dicta", "extract_dissenting_opinions",
             "generate_abstract"}

\* StepGuard with the emptiness tests of the list steps lost
StepGuardNoResume(step, state) ==
    CASE step = "detect_jurisdiction" -> state.jurisdiction = None
      [] step \in {"extract_obiter_dicta", "extract_dissenting_opinions"} ->
            state.jurisdiction = COMMON_LAW
      [] OTHER -> TRUE

\* StepGuard with the test of detect_jurisdiction lost
StepGuardRedetect(step, state) ==
    CASE step = "detect_jurisdiction" -> TRUE
      [] step = "extract_col_section" -> state.col_section = <<>>
      [] step = "classify_themes" -> state.classification = <<>>
      [] step = "analyze_relevant_facts" -> state.relevant_facts = <<>>
      [] step = "identify_pil_provisions" -> state.pil_provisions = <<>>
      [] step = "identify_col_issue" -> state.col_issue = <<>>
      [] step = "analyze_courts_position" -> state.courts_position = <<>>
      [] step = "extract_obiter_dicta" ->
            state.obiter_dicta = <<>> /\ state.jurisdiction = COMMON_LAW
      [] step = "extract_dissenting_opinions" ->
            state.dissenting_opinions = <<>> /\ state.jurisdiction = COMMON_LAW
      [] step = "generate_abstract" -> state.abstract = <<>>

\* The condition of the elif branch of analyze_case that handles the step
StepGuard(step, state) ==
    CASE step = "detect_jurisdiction" -> state.jurisdiction = None
      [] step = "extract_col_section" -> state.col_section = <<>>
      [] step = "classify_themes" -> state.classification = <<>>
      [] step = "analyze_relevant_facts" -> state.relevant_facts = <<>>
      [] step = "identify_pil_provisions" -> state.pil_provisions = <<>>
      [] step = "identify_col_issue" -> state.col_issue = <<>>
      [] step = "analyze_courts_position" -> state.courts_position = <<>>
      [] step = "extract_obiter_dicta" ->
            state.obiter_dicta = <<>> /\ state.jurisdiction = COMMON_LAW
      [] step = "extract_dissenting_opinions" ->
            state.dissenting_opinions = <<>> /\ state.jurisdiction = COMMON_LAW
      [] step = "generate_abstract" -> state.abstract = <<>>

\* ", ".join(items) raises TypeError when an item is no string
JoinRaises(items) == \E i \in 1..Len(items) : items[i].type # "string"

\* Whether storing the result of the step raises in analyze_case
StoreRaises(step, result) ==
    step = "identify_pil_provisions" /\ JoinRaises(result)

\* StoreJurisdiction storing a fixed family instead of the detected one
StoreJurisdictionFixed(state, jurisdiction_data) ==
    [state EXCEPT !.jurisdiction = COMMON_LAW,
                  !.precise_jurisdiction = jurisdiction_data.precise_jurisdiction]

\* state.jurisdiction = JurisdictionType(jurisdiction_data["jurisdiction_type"])
\* state.precise_jurisdiction = jurisdiction_data["precise_jurisdiction"]
StoreJurisdiction(state, jurisdiction_data) ==
    [state EXCEPT !.jurisdiction = jurisdiction_data.jurisdiction_type,
                  !.precise_jurisdiction = jurisdiction_data.precise_jurisdiction]

\* StoreResult setting the completion flag with the court's position
StoreResultDoneEarly(step, state, result) ==
    CASE step = "detect_jurisdiction" -> StoreJurisdiction(state, result)
      [] step = "extract_col_section" ->
            [state EXCEPT !.col_section = Append(@, result)]
      [] step = "classify_themes" ->
            [state EXCEPT !.classification = Append(@, Join(result))]
      [] step = "analyze_relevant_facts" ->
            [state EXCEPT !.relevant_facts = Append(@, result)]
      [] step = "identify_pil_provisions" ->
            [state EXCEPT !.pil_provisions =
                Append(@, Join([i \in 1..Len(result) |-> result[i].text]))]
      [] step = "identify_col_issue" ->
            [state EXCEPT !.col_issue = Append(@, result)]
      [] step = "analyze_courts_position" ->
            [state EXCEPT !.courts_position = Append(@, result),
                          !.analysis_done = TRUE]
      [] step = "extract_obiter_dicta" ->
            [state EXCEPT !.obiter_dicta = Append(@, result)]
      [] step = "extract_dissenting_opinions" ->
            [state EXCEPT !.dissenting_opinions = Append(@, result)]
      [] step = "generate_abstract" ->
            [state EXCEPT !.abstract = Append(@, result),
                          !.analysis_done = TRUE]

\* The state after the branch of analyze_case has stored the result
StoreResult(step, state, result) ==
    CASE step = "detect_jurisdiction" -> StoreJurisdiction(state, result)
      [] step = "extract_col_section" ->
            [state EXCEPT !.col_section = Append(@, result)]
      [] step = "classify_themes" ->
            [state EXCEPT !.classification = Append(@, Join(result))]
      [] step = "analyze_relevant_facts" ->
            [state EXCEPT !.relevant_facts = Append(@, result)]
      [] step = "identify_pil_provisions" ->
            [state EXCEPT !.pil_provisions =
                Append(@, Join([i \in 1..Len(result) |-> result[i].text]))]
      [] step = "identify_col_issue" ->
            [state EXCEPT !.col_issue = Append(@, result)]
      [] step = "analyze_courts_position" ->
            [state EXCEPT !.courts_position = Append(@, result)]
      [] step = "extract_obiter_dicta" ->
            [state EXCEPT !.obiter_dicta = Append(@, result)]
      [] step = "extract_dissenting_opinions" ->
            [state EXCEPT !.dissenting_opinions = Append(@, result)]
      [] step = "generate_abstract" ->
            [state EXCEPT !.abstract = Append(@, result),
                          !.analysis_done = TRUE]

\* The quick branch stores the themes by assignment
StoreQuickThemes(state, result) ==
    [state EXCEPT !.classification = <<Join(result)>>]

\* Percentages are kept in tenths of a percent, which is exact for the
\* totals 8 and 10.
Percent(n) == n * 10

\* 1 if xs else 0, for a list
NonEmpty(xs) == IF xs # <<>> THEN 1 ELSE 0

\* completed_steps of analyze_case
completed_steps(state) ==
    (IF state.jurisdiction # None THEN 1 ELSE 0) + NonEmpty(state.col_section)
    + NonEmpty(state.classification) + NonEmpty(state.relevant_facts)
    + NonEmpty(state.pil_provisions) + NonEmpty(state.col_issue)
    + NonEmpty(state.courts_position) + NonEmpty(state.abstract)

\* total_steps of analyze_case
total_steps(state) == Len(get_analysis_pipeline(JurisdictionOrCivil(state)))

\* completion_percentage of analyze_case
completion_percentage(state) ==
    (completed_steps(state) * Percent(100)) \div total_steps(state)

\* AnalysisResponse returned by analyze_case
AnalysisResponse(sid, state) ==
    [kind |-> "analysis",
     status |-> 200,
     session_id |-> sid,
     stage |-> state.analysis_stage,
     jurisdiction |-> state.jurisdiction,
     completion_percentage |-> completion_percentage(state),
     next_stage |-> IF completion_percentage(state) >= Percent(100)
                    THEN None ELSE "complete",
     detail |-> <<>>]

\* HTTPException(status_code=500, detail="Analysis error: " + str(e))
ErrorResponse(sid, message) ==
    [kind |-> "error",
     status |-> 500,
     session_id |-> sid,
     stage |-> None,
     jurisdiction |-> None,
     completion_percentage |-> 0,
     next_stage |-> None,
     detail |-> <<"Analysis error: ", message>>]

LLM_ERROR == "completion service error"
JOIN_TYPE_ERROR == "sequence item 0: expected str instance, int found"

----------------------------------------------------------------------------
(* State machine *)

Present(sid) == session_storage[sid] # NoSession

NoDb == [conversations |-> {}, rows |-> <<>>, clock |-> 0]

NoOp == [pc |-> "idle"]

\* Chunks the Completion Service delivers to one streaming response
MaxChunks == 2

\* The two requests whose handlers interleave
StreamIds == {1, 2}

\* A generate_stream that has not been called
IdleStream == [pc |-> "idle"]

NoStreams == [p \in StreamIds |-> IdleStream]

Init ==
    /\ session_storage = [sid \in Sessions |-> NoSession]
    /\ tool_execution_log = <<>>
    /\ session_activity_log = [sid \in {} |-> <<>>]
    /\ req = NoReq
    /\ response = NoResponse
    /\ failed = NoFailure
    /\ disturbances = 0
    /\ call = NoCall
    /\ pending = <<>>
    /\ chat_storage = [sid \in {} |-> <<>>]
    /\ run = [node |-> "idle", messages |-> <<>>, session_id |-> "none",
              steps |-> 0, invoked |-> <<>>, turns |-> 0]
    /\ chat_response = NoResponse
    /\ db = NoDb
    /\ op = NoOp
    /\ streams = NoStreams

\* StartAnalyze taking the inputs of every request into the state
StartAnalyzeOverwrite(sid, citation, text, pattern) ==
    /\ req = NoReq
    /\ LET state == IF Present(sid)
                    THEN [session_storage[sid] EXCEPT !.case_citation = citation,
                                                      !.full_text = text]
                    ELSE AnalysisState(sid, citation, text)
       IN  /\ session_storage' = [session_storage EXCEPT ![sid] = state]
           /\ req' = [pc |-> CASE pattern = "quick" -> "quick_jurisdiction"
                               [] pattern = "comprehensive" -> "pipeline"
                               [] OTHER -> "respond",
                      session_id |-> sid,
                      full_text |-> text,
                      pattern |-> pattern,
                      pipeline |-> IF pattern = "comprehensive"
                                   THEN get_analysis_pipeline(JurisdictionOrCivil(state))
                                   ELSE <<>>,
                      i |-> 1,
                      ran |-> 0]
    /\ UNCHANGED <<tool_execution_log, session_activity_log, response, failed,
                   disturbances, call, chat_storage, run, chat_response,
                   service_vars>>

\* StartAnalyze with every pattern but quick running the pipeline
StartAnalyzeEveryPatternRuns(sid, citation, text, pattern) ==
    /\ req = NoReq
    /\ LET state == IF Present(sid) THEN session_storage[sid]
                    ELSE AnalysisState(sid, citation, text)
       IN  /\ session_storage' = [session_storage EXCEPT ![sid] = state]
           /\ req' = [pc |-> CASE pattern = "quick" -> "quick_jurisdiction"
                               [] OTHER -> "pipeline",
                      session_id |-> sid,
                      full_text |-> text,
                      pattern |-> pattern,
                      pipeline |-> IF pattern # "quick"
                                   THEN get_analysis_pipeline(JurisdictionOrCivil(state))
                                   ELSE <<>>,
                      i |-> 1,
                      ran |-> 0]
    /\ UNCHANGED <<tool_execution_log, session_activity_log, response, failed,
                   disturbances, call, chat_storage, run, chat_response,
                   service_vars>>

\* POST /analyze up to the dispatch on the pattern: the state is fetched
\* or created, and the comprehensive branch computes its pipeline.  The
\* request keeps the full_text it carries.
StartAnalyze(sid, citation, text, pattern) ==
    /\ req = NoReq
    /\ LET state == IF Present(sid) THEN session_storage[sid]
                    ELSE AnalysisState(sid, citation, text)
       IN  /\ session_storage' = [session_storage EXCEPT ![sid] = state]
           /\ req' = [pc |-> CASE pattern = "quick" -> "quick_jurisdiction"
                               [] pattern = "comprehensive" -> "pipeline"
                               [] OTHER -> "respond",
                      session_id |-> sid,
                      full_text |-> text,
                      pattern |-> pattern,
                      pipeline |-> IF pattern = "comprehensive"
                                   THEN get_analysis_pipeline(JurisdictionOrCivil(state))
                                   ELSE <<>>,
                      i |-> 1,
                      ran |-> 0]
    /\ UNCHANGED <<tool_execution_log, session_activity_log, response, failed,
                   disturbances, call, chat_storage, run, chat_response,
                   service_vars>>

\* The request after its step at position pc: the loop goes on, or ends.
Advance(r) ==
    CASE r.pc = "quick_jurisdiction" -> [r EXCEPT !.pc = "quick_themes"]
      [] r.pc = "quick_themes" -> [r EXCEPT !.pc = "respond"]
      [] r.pc = "pipeline" ->
            IF r.i < Len(r.pipeline)
            THEN [r EXCEPT !.i = r.i + 1]
            ELSE [r EXCEPT !.pc = "respond", !.i = r.i + 1]

\* await orchestrator.execute_step(step, state) followed by the store of
\* its result, as one branch of analyze_case runs them; an exception ends
\* the request with the 500 response.
RunStep(step, quick) ==
    LET sid == req.session_id
        state == session_storage[sid]
    IN  \E outcome \in InvokeTool(step, state) :
          /\ UNCHANGED <<call, pending, chat_storage, run, chat_response,
                       service_vars>>
          /\ tool_execution_log' =
                LoggedGlobal(tool_execution_log, step, state, FinalStatus(outcome))
          /\ session_activity_log' =
                LoggedSession(session_activity_log, step, state, FinalStatus(outcome))
          /\ IF ~outcome.ok
             THEN /\ disturbances < MaxDisturbances
                  /\ disturbances' = disturbances + 1
                  /\ response' = ErrorResponse(sid, LLM_ERROR)
                  /\ failed' = [step |-> step, pattern |-> req.pattern]
                  /\ req' = NoReq
                  /\ UNCHANGED session_storage
             ELSE IF ~quick /\ StoreRaises(step, outcome.result)
             THEN /\ disturbances < MaxDisturbances
                  /\ disturbances' = disturbances + 1
                  /\ response' = ErrorResponse(sid, JOIN_TYPE_ERROR)
                  /\ failed' = [step |-> step, pattern |-> req.pattern]
                  /\ req' = NoReq
                  /\ UNCHANGED session_storage
             ELSE /\ session_storage' =
                        [session_storage EXCEPT ![sid] =
                            IF quick /\ step = "classify_themes"
                            THEN StoreQuickThemes(state, outcome.result)
                            ELSE StoreResult(step, state, outcome.result)]
                  /\ req' = [Advance(req) EXCEPT !.ran = @ + 1]
                  /\ UNCHANGED <<response, failed, disturbances>>

SkipStep ==
    /\ req' = Advance(req)
    /\ UNCHANGED <<session_storage, tool_execution_log, session_activity_log,
                   response, failed, disturbances, call, pending,
                   chat_storage, run, chat_response, service_vars>>

\* QuickJurisdiction with its test of state.jurisdiction lost
QuickJurisdictionAlways ==
    /\ req.pc = "quick_jurisdiction"
    /\ RunStep("detect_jurisdiction", TRUE)

\* quick: if not state.jurisdiction: detect_jurisdiction
QuickJurisdiction ==
    /\ req.pc = "quick_jurisdiction"
    /\ IF session_storage[req.session_id].jurisdiction = None
       THEN RunStep("detect_jurisdiction", TRUE)
       ELSE SkipStep

\* quick: if not state.classification: classify_themes
QuickThemes ==
    /\ req.pc = "quick_themes"
    /\ IF session_storage[req.session_id].classification = <<>>
       THEN RunStep("classify_themes", TRUE)
       ELSE SkipStep

\* comprehensive: one iteration of the loop over the pipeline
PipelineStep ==
    /\ req.pc = "pipeline"
    /\ LET step == req.pipeline[req.i]
       IN  IF StepGuard(step, session_storage[req.session_id])
           THEN RunStep(step, FALSE)
           ELSE SkipStep

\* The completion percentage is computed and the response returned.
Respond ==
    /\ req.pc = "respond"
    /\ response' = AnalysisResponse(req.session_id, session_storage[req.session_id])
    /\ req' = NoReq
    /\ failed' = NoFailure
    /\ UNCHANGED <<session_storage, tool_execution_log, session_activity_log,
                   disturbances, call, pending, chat_storage, run,
                   chat_response, service_vars>>

\* DELETE /sessions/{session_id}
clear_session(sid) ==
    /\ req = NoReq
    /\ IF Present(sid)
       THEN /\ disturbances < MaxDisturbances
            /\ disturbances' = disturbances + 1
            /\ session_storage' = [session_storage EXCEPT ![sid] = NoSession]
            /\ response' = [kind |-> "cleared", status |-> 200, session_id |-> sid,
                            stage |-> None, jurisdiction |-> None,
                            completion_percentage |-> 0, next_stage |-> None,
                            detail |-> <<>>]
       ELSE /\ response' = [kind |-> "not_found", status |-> 200, session_id |-> sid,
                            stage |-> None, jurisdiction |-> None,
                            completion_percentage |-> 0, next_stage |-> None,
                            detail |-> <<>>]
            /\ UNCHANGED <<session_storage, disturbances>>
    /\ failed' = NoFailure
    /\ UNCHANGED <<tool_execution_log, session_activity_log, req, call, pending,
                   chat_storage, run, chat_response, service_vars>>

\* POST /analyze of a request the event loop runs as soon as it arrives
analyze_case(sid, citation, text, pattern) ==
    /\ StartAnalyze(sid, citation, text, pattern)
    /\ UNCHANGED pending

Next ==
    \/ \E sid \in Sessions, citation \in Citations, text \in Texts,
          pattern \in AnalysisPattern : analyze_case(sid, citation, text, pattern)
    \/ QuickJurisdiction
    \/ QuickThemes
    \/ PipelineStep
    \/ Respond
    \/ \E sid \in Sessions : clear_session(sid)

Spec == Init /\ [][Next]_vars

----------------------------------------------------------------------------
(* The tools applied to given inputs (tools specification): one call of *)
(* one tool, made from the initial state.                                *)

\* What a call of a tool leaves alone
orchestrator_vars == <<session_storage, tool_execution_log, session_activity_log,
                       req, response, failed, disturbances, pending>>

chat_vars == <<chat_storage, run, chat_response>>

EmptyText == [raw |-> 0, stripped |-> 0]
BlankText == [raw |-> 3, stripped |-> 0]
BriefText == [raw |-> 49, stripped |-> 49]
ToolTexts == {EmptyText, BlankText, BriefText, ShortText, LongText}

\* Jurisdiction names: keys of the table in several letter cases, names
\* the table does not hold, a part of a key, and the names read as no name.
\* A name that holds a civil-law key and a common-law key
GeorgiaUSA == <<"G", "e", "o", "r", "g", "i", "a", ",", " ", "U", "S", "A">>

ToolNames ==
    {CitUSA, CitBGH, <<"u", "s", "a">>, <<"P", "e", "r", "u">>,
     <<"i", "n", "D", "I", "A">>, <<"U", "S">>, Unknown, <<>>, GeorgiaUSA}

\* One call of JurisdictionDetector.detect_by_name in a process whose table
\* yields its keys in the given order
DetectByName(jurisdiction_name, order) ==
    /\ call = NoCall
    /\ call' = [tool |-> "detect_by_name",
                jurisdiction_name |-> jurisdiction_name,
                order |-> order,
                outcome |-> detect_by_name_in(jurisdiction_name, order)]
    /\ UNCHANGED <<orchestrator_vars, chat_vars, service_vars>>

\* The tool of the step invoked with arguments read from a state that holds
\* the given inputs.
ApplyTool(step_name, citation, text, jurisdiction) ==
    LET state == [AnalysisState("s1", citation, text)
                     EXCEPT !.jurisdiction = jurisdiction]
    IN  \E outcome \in InvokeTool(step_name, state) :
          /\ call = NoCall
          /\ call' = [tool |-> step_name,
                      case_citation |-> citation,
                      full_text |-> text,
                      jurisdiction |-> jurisdiction,
                      outcome |-> outcome]
          /\ UNCHANGED <<orchestrator_vars, chat_vars, service_vars>>

\* The labels as strings of characters
LabelChars ==
    [l \in JurisdictionType |->
        CASE l = CIVIL_LAW ->
                <<"C", "i", "v", "i", "l", "-", "l", "a", "w", " ", "j", "u", "r",
                  "i", "s", "d", "i", "c", "t", "i", "o", "n">>
          [] l = COMMON_LAW ->
                <<"C", "o", "m", "m", "o", "n", "-", "l", "a", "w", " ", "j", "u",
                  "r", "i", "s", "d", "i", "c", "t", "i", "o", "n">>
          [] l = NO_COURT_DECISION ->
                <<"N", "o", " ", "c", "o", "u", "r", "t", " ", "d", "e", "c", "i",
                  "s", "i", "o", "n">>]

\* Stripped contents of responses to the classification prompt
LlmTexts ==
    {<<"c", "i", "v", "i", "l", "-", "l", "a", "w", " ", "j", "u", "r",
       "i", "s", "d", "i", "c", "t", "i", "o", "n">>,
     <<"C", "O", "M", "M", "O", "N", "-", "L", "A", "W", " ", "J", "U",
       "R", "I", "S", "D", "I", "C", "T", "I", "O", "N", ".">>,
     <<"C", "o", "m", "m", "o", "n", "-", "l", "a", "w", " ", "j", "u",
       "r", "i", "s", "d", "i", "c", "t", "i", "o", "n", ",", " ", "n",
       "o", "t", " ", "C", "i", "v", "i", "l", "-", "l", "a", "w", " ",
       "j", "u", "r", "i", "s", "d", "i", "c", "t", "i", "o", "n">>,
     <<"C", "i", "v", "i", "l", " ", "l", "a", "w">>,
     <<"n", "o", " ", "c", "o", "u", "r", "t", " ", "d", "e", "c", "i",
       "s", "i", "o", "n">>,
     <<"M", "i", "x", "e", "d", " ", "j", "u", "r", "i", "s", "d", "i",
       "c", "t", "i", "o", "n">>,
     <<>>}

\* {option for option in allowed if option.lower() in result.lower()}
LabelsIn(result) ==
    {l \in JurisdictionType : IsSubstring(Lower(LabelChars[l]), Lower(result))}

\* detect_by_llm on a response of the Completion Service
DetectByLlm(result) ==
    /\ call = NoCall
    /\ call' = [tool |-> "detect_by_llm",
                response |-> result,
                result |-> detect_by_llm(LabelsIn(result))]
    /\ UNCHANGED <<orchestrator_vars, chat_vars, service_vars>>

\* ThemeClassifier.classify is entered: no response yet
ClassifyStart ==
    /\ call = NoCall
    /\ call' = [tool |-> "classify", status |-> "running",
                responses |-> <<>>, result |-> <<>>]
    /\ UNCHANGED <<orchestrator_vars, chat_vars, service_vars>>

\* One iteration of the loop of ThemeClassifier.classify, the Completion
\* Service answering r; after the last iteration the fallback is returned.
ClassifyAttempt(r) ==
    /\ call.tool = "classify"
    /\ call.status = "running"
    /\ LET responses == Append(call.responses, r)
           themes == classify_attempt(r)
       IN  call' =
             IF themes # <<>>
             THEN [call EXCEPT !.status = "returned", !.responses = responses,
                               !.result = themes]
             ELSE IF Len(responses) = max_attempts
             THEN [call EXCEPT !.status = "returned", !.responses = responses,
                               !.result = <<"Cross-border Transactions">>]
             ELSE [call EXCEPT !.responses = responses]
    /\ UNCHANGED <<orchestrator_vars, chat_vars, service_vars>>

\* The Completion Service raises in an iteration of the loop.
ClassifyRaise ==
    /\ call.tool = "classify"
    /\ call.status = "running"
    /\ call' = [call EXCEPT !.status = "raised"]
    /\ UNCHANGED <<orchestrator_vars, chat_vars, service_vars>>

\* CaseAnalyzer.identify_pil_provisions, the Completion Service answering r
ProvisionsCall(r) ==
    /\ call = NoCall
    /\ call' = [tool |-> "provisions", status |-> "returned",
                responses |-> <<r>>, result |-> parse_provisions(r)]
    /\ UNCHANGED <<orchestrator_vars, chat_vars, service_vars>>

\* The table of tools/tools.py, the entries this model keeps
get_jurisdiction_legal_system_mapping ==
    [k \in {<<"p", "e", "r", "u">>, <<"g", "e", "o", "r", "g", "i", "a">>,
            <<"u", "s", "a">>, <<"i", "n", "d", "i", "a">>} |->
        IF k \in {<<"u", "s", "a">>, <<"i", "n", "d", "i", "a">>}
        THEN COMMON_LAW ELSE CIVIL_LAW]

\* What one call of the Completion Service does: it answers with a content
\* or it fails.
Completions ==
    [ok : {TRUE}, content : LlmTexts] \cup {[ok |-> FALSE, content |-> <<>>]}

\* The string a chat tool returns: the legal system its heading names and
\* the branch that produced it
Analysis(heading, basis) == [heading |-> heading, basis |-> basis]

\* detect_legal_system_type of tools/tools.py, the chat tool: every
\* exception raised inside its `try` is turned into a returned string.
detect_legal_system_type(jurisdiction_name, text, completion) ==
    LET mapping == get_jurisdiction_legal_system_mapping
        lower == Lower(jurisdiction_name)
        named == jurisdiction_name # <<>> /\ lower \notin NullNames
        partial == {k \in DOMAIN mapping :
                       IsSubstring(k, lower) \/ IsSubstring(lower, k)}
        options == LabelsIn(completion.content)
    IN  IF text.raw = 0 \/ text.stripped < 50
        THEN {Ok(Analysis(NO_COURT_DECISION, "text_length"), 0)}
        ELSE IF named /\ lower \in DOMAIN mapping
        THEN {Ok(Analysis(mapping[lower], "mapping"), 0)}
        ELSE IF named /\ partial # {}
        THEN {Ok(Analysis(mapping[order[CHOOSE i \in DOMAIN order :
                                            /\ order[i] \in partial
                                            /\ \A j \in 1..(i - 1) :
                                                    order[j] \notin partial]],
                          "partial"), 0) : order \in TableOrders}
        ELSE IF ~completion.ok
        THEN {Ok(Analysis("Analysis Error", "exception"), 1)}
        ELSE IF options # {}
        THEN {Ok(Analysis(allowed[CHOOSE i \in 1..Len(allowed) :
                                     /\ allowed[i] \in options
                                     /\ \A j \in 1..(i - 1) : allowed[j] \notin options],
                          "llm"), 1)}
        ELSE {Ok(Analysis(NO_COURT_DECISION, "llm_default"), 1)}

\* One call of the chat tool
DetectLegalSystemType(jurisdiction_name, text, completion) ==
    \E outcome \in detect_legal_system_type(jurisdiction_name, text, completion) :
        /\ call = NoCall
        /\ call' = [tool |-> "detect_legal_system_type",
                    jurisdiction_name |-> jurisdiction_name,
                    full_text |-> text,
                    completion |-> completion,
                    outcome |-> outcome]
        /\ UNCHANGED <<orchestrator_vars, chat_vars, service_vars>>

\* The one-shot analysis tool of the chat agent (tools/streaming_tools.py)

\* analysis_steps: the ids of the six steps, in the order of the list
analysis_steps ==
    <<"jurisdiction_detection", "legal_system_classification",
      "col_extraction", "theme_classification",
      "col_issue_identification", "court_position_analysis">>

\* The string a step tool returns: the tool it comes from and the branch
\* of the tool that produced it
StepResult(step_id, branch) == [step |-> step_id, branch |-> branch]

\* The empty string the argument lists start with
EmptyArg == StepResult("none", "empty")

\* step["tool"].invoke(step["args"]) for the six tools of tools/tools.py:
\* each returns a message for a text shorter than 50 characters, returns
\* its analysis when the Completion Service answers, and returns an
\* "Analysis Error" message from its `except Exception` when the service
\* raises; none of them raises.
invoke_step(step_id, text, service_ok) ==
    IF text.raw = 0 \/ text.stripped < 50
    THEN Ok(StepResult(step_id, "Insufficient Text"), 0)
    ELSE IF ~service_ok
    THEN Ok(StepResult(step_id, "Analysis Error"), 1)
    ELSE Ok(StepResult(step_id, "analysis"), 1)

\* step["args"] after the update with the results of earlier steps
step_args(step_id, results) ==
    LET from(id) == IF id \in DOMAIN results THEN results[id] ELSE EmptyArg
    IN  [col_section |->
            IF step_id \in {"theme_classification", "col_issue_identification",
                            "court_position_analysis"}
            THEN from("col_extraction") ELSE EmptyArg,
         themes |->
            IF step_id \in {"col_issue_identification", "court_position_analysis"}
            THEN from("theme_classification") ELSE EmptyArg,
         col_issue |->
            IF step_id = "court_position_analysis"
            THEN from("col_issue_identification") ELSE EmptyArg]

\* The loop over analysis_steps from step i on: acc holds results,
\* completed_steps, the steps invoked so far and the arguments each got.
RECURSIVE run_analysis_steps(_, _, _, _)
run_analysis_steps(i, text, service, acc) ==
    IF i > Len(analysis_steps) THEN acc
    ELSE LET step_id == analysis_steps[i]
             args == step_args(step_id, acc.results)
             outcome == invoke_step(step_id, text, service[i])
             next ==
                IF outcome.ok
                THEN [results |-> (step_id :> outcome.result) @@ acc.results,
                      completed_steps |-> acc.completed_steps + 1,
                      invoked |-> Append(acc.invoked, step_id),
                      args |-> Append(acc.args, args)]
                ELSE [results |-> (step_id :> StepResult(step_id, "**Error:**"))
                                    @@ acc.results,
                      completed_steps |-> acc.completed_steps,
                      invoked |-> Append(acc.invoked, step_id),
                      args |-> Append(acc.args, args)]
         IN  run_analysis_steps(i + 1, text, service, next)

\* One call of streaming_analyze_legal_case(case_details); service[i] says
\* whether the Completion Service answers during step i.
streaming_analyze_legal_case(case_details, service) ==
    /\ call = NoCall
    /\ call' =
        IF case_details.raw = 0 \/ case_details.stripped = 0
        THEN [tool |-> "streaming_analyze_legal_case",
              case_details |-> case_details, service |-> service,
              results |-> <<>>, completed_steps |-> 0,
              invoked |-> <<>>, args |-> <<>>, report |-> "Input Required"]
        ELSE LET done == run_analysis_steps(
                            1, case_details, service,
                            [results |-> <<>>, completed_steps |-> 0,
                             invoked |-> <<>>, args |-> <<>>])
             IN  [tool |-> "streaming_analyze_legal_case",
                  case_details |-> case_details, service |-> service,
                  results |-> done.results,
                  completed_steps |-> done.completed_steps,
                  invoked |-> done.invoked, args |-> done.args,
                  report |-> IF done.completed_steps = Len(analysis_steps)
                             THEN "Excellent" ELSE "Partial"]
    /\ UNCHANGED <<orchestrator_vars, chat_vars, service_vars>>

ToolNext ==
    \/ \E jurisdiction_name \in ToolNames, text \in ToolTexts,
          completion \in Completions :
            DetectLegalSystemType(jurisdiction_name, text, completion)
    \/ \E step_name \in AllSteps, citation \in ToolNames, text \in ToolTexts,
          jurisdiction \in JurisdictionType \cup {None} :
            ApplyTool(step_name, citation, text, jurisdiction)
    \/ \E result \in LlmTexts : DetectByLlm(result)
    \/ ClassifyStart
    \/ \E r \in ThemeResponses : ClassifyAttempt(r)
    \/ ClassifyRaise
    \/ \E r \in ProvisionResponses : ProvisionsCall(r)
    \/ \E jurisdiction_name \in ToolNames, order \in TableOrders :
            DetectByName(jurisdiction_name, order)
    \/ \E case_details \in ToolTexts, service \in [1..Len(analysis_steps) -> BOOLEAN] :
            streaming_analyze_legal_case(case_details, service)

ToolSpec == Init /\ [][ToolNext]_vars

----------------------------------------------------------------------------
(* Requests in flight at once (concurrent-requests specification): the   *)
(* server accepts requests at any time; the event loop runs one handler  *)
(* at a time, and analyze_case has no point at which it gives the loop   *)
(* back before it returns (execute_step awaits nothing and the tools are *)
(* synchronous calls).                                                   *)

\* Requests accepted and not yet answered, the one being handled included
MaxInFlight == 2

RaceRequests ==
    [session_id : Sessions, case_citation : {CitUSA}, full_text : {LongText},
     pattern : {"quick", "comprehensive"}]

InFlight == Len(pending) + (IF req = NoReq THEN 0 ELSE 1)

\* The server accepts a POST /analyze; its handler waits for the event loop.
Accept(r) ==
    /\ InFlight < MaxInFlight
    /\ pending' = Append(pending, r)
    /\ UNCHANGED <<session_storage, tool_execution_log, session_activity_log,
                   req, response, failed, disturbances, call, chat_storage,
                   run, chat_response, service_vars>>

\* pending without its element at position k
Without(q, k) == SubSeq(q, 1, k - 1) \o SubSeq(q, k + 1, Len(q))

\* The event loop, no handler running, starts the handler of an accepted
\* request.
BeginPending ==
    \E k \in 1..Len(pending) :
        /\ StartAnalyze(pending[k].session_id, pending[k].case_citation,
                        pending[k].full_text, pending[k].pattern)
        /\ pending' = Without(pending, k)

RaceNext ==
    \/ \E r \in RaceRequests : Accept(r)
    \/ BeginPending
    \/ QuickJurisdiction
    \/ QuickThemes
    \/ PipelineStep
    \/ Respond

RaceSpec == Init /\ [][RaceNext]_vars

----------------------------------------------------------------------------
(* Legacy chat: POST /chat of backend/main.py running the agent/tools    *)
(* graph (the same graph is built by utils/workflow.py).                 *)

\* Chat requests in one behaviour
MaxTurns == 2
\* Calls of the model in one run of the graph
MaxAgentSteps == 2
\* Tool calls in one response of the model
MaxToolCalls == 2

ChatSessions == {"c1"}
UserMessages == {"m1"}
ToolArgs == "q1"

tools_by_name == {"analyze_legal_case", "search_legal_precedents"}

\* Names the model puts into a tool call: the tools bound to it and a name
\* that is not registered.
RequestedNames == tools_by_name \cup {"lookup_statute"}

HumanMessage(content) ==
    [type |-> "human", content |-> content, tool_calls |-> <<>>,
     name |-> "", tool_call_id |-> 0]

AIMessage(content, tool_calls) ==
    [type |-> "ai", content |-> content, tool_calls |-> tool_calls,
     name |-> "", tool_call_id |-> 0]

ToolMessage(content, name, tool_call_id) ==
    [type |-> "tool", content |-> content, tool_calls |-> <<>>,
     name |-> name, tool_call_id |-> tool_call_id]

analyze_legal_case(case_details) == "Legal case analysis for: q1"

search_legal_precedents(query) == "Found relevant precedents for 'q1'"

\* tools_by_name[name].invoke(args)
invoke(name, args) ==
    IF name = "analyze_legal_case" THEN analyze_legal_case(args)
    ELSE search_legal_precedents(args)

\* json.dumps of a string: the string in double quotes
json_dumps(text) ==
    IF text = "Legal case analysis for: q1"
    THEN "\"Legal case analysis for: q1\""
    ELSE "\"Found relevant precedents for 'q1'\""

\* Identifier the model gives the i-th tool call of the response it returns
\* for this history: no two calls of a run share one.
call_id(messages, i) == 10 * Len(messages) + i

\* Responses of the model to a history: an answer without tool calls, or
\* up to MaxToolCalls tool calls.
ModelResponses(messages) ==
    {AIMessage(c, <<>>) : c \in {"a1", ""}}
    \cup {AIMessage("", [i \in DOMAIN names |->
                            [name |-> names[i], args |-> ToolArgs,
                             id |-> call_id(messages, i)]]) :
            names \in UNION {[1..m -> RequestedNames] : m \in 1..MaxToolCalls}}

should_continue(messages) ==
    IF messages[Len(messages)].tool_calls = <<>> THEN "end" ELSE "continue"

\* POST /chat up to the start of the graph: the user message is appended to
\* the stored history, and the graph starts at its entry point, agent.
StartChat(sid, message) ==
    /\ run.node = "idle"
    /\ run.turns < MaxTurns
    /\ LET history == IF sid \in DOMAIN chat_storage THEN chat_storage[sid] ELSE <<>>
           inputs == Append(history, HumanMessage(message))
       IN /\ chat_storage' = [s \in DOMAIN chat_storage \cup {sid} |->
                                 IF s = sid THEN inputs ELSE chat_storage[s]]
          /\ run' = [node |-> "agent", messages |-> inputs, session_id |-> sid,
                     steps |-> 0, invoked |-> <<>>, turns |-> run.turns + 1]
    /\ chat_response' = NoResponse
    /\ UNCHANGED <<orchestrator_vars, service_vars, call>>

\* The agent node and the conditional edge after it.
call_model(r) ==
    /\ run.node = "agent"
    /\ r \in ModelResponses(run.messages)
    /\ r.tool_calls # <<>> => run.steps + 1 < MaxAgentSteps
    /\ run' = [run EXCEPT !.messages = Append(@, r),
                          !.steps = @ + 1,
                          !.node = IF should_continue(Append(run.messages, r)) = "continue"
                                   THEN "tools" ELSE "end"]
    /\ UNCHANGED <<orchestrator_vars, service_vars, call, chat_storage, chat_response>>

\* model.invoke fails: the exception leaves the graph.
ModelRaises ==
    /\ run.node = "agent"
    /\ run' = [run EXCEPT !.node = "raised"]
    /\ UNCHANGED <<orchestrator_vars, service_vars, call, chat_storage, chat_response>>

\* Position of the first tool call whose name is not a key of tools_by_name,
\* Len(calls) + 1 if there is none
FirstUnknown(calls) ==
    IF \E i \in 1..Len(calls) : calls[i].name \notin tools_by_name
    THEN CHOOSE i \in 1..Len(calls) :
            /\ calls[i].name \notin tools_by_name
            /\ \A j \in 1..(i - 1) : calls[j].name \in tools_by_name
    ELSE Len(calls) + 1

\* The tools node and the edge back to agent.  tools_by_name[name] of a
\* name that is not a key raises KeyError: the outputs collected so far are
\* dropped and the exception leaves the graph.
tool_node ==
    /\ run.node = "tools"
    /\ LET calls == run.messages[Len(run.messages)].tool_calls
           k == FirstUnknown(calls)
           outputs == [i \in 1..Len(calls) |->
                          ToolMessage(json_dumps(invoke(calls[i].name, calls[i].args)),
                                      calls[i].name, calls[i].id)]
           invoked == [i \in 1..(k - 1) |-> [name |-> calls[i].name, id |-> calls[i].id]]
       IN IF k > Len(calls)
          THEN run' = [run EXCEPT !.messages = @ \o outputs,
                                  !.invoked = @ \o invoked,
                                  !.node = "agent"]
          ELSE run' = [run EXCEPT !.invoked = @ \o invoked,
                                  !.node = "raised"]
    /\ UNCHANGED <<orchestrator_vars, service_vars, call, chat_storage, chat_response>>

\* POST /chat after the graph: the final state replaces the stored history
\* and its last message is the answer; an exception is answered with 500.
\* chat_endpoint_legacy of routes/chat.py starts a turn: the same handler
\* over the map of services/session.py.  get_session_messages returns the
\* stored list of a session that has one, so the append changes the stored
\* history, and a fresh list that is not stored for a session that has none.
StartChatLegacy(sid, message) ==
    /\ run.node = "idle"
    /\ run.turns < MaxTurns
    /\ LET session_messages == IF sid \in DOMAIN chat_storage
                               THEN chat_storage[sid] ELSE <<>>
           inputs == Append(session_messages, HumanMessage(message))
       IN /\ chat_storage' = IF sid \in DOMAIN chat_storage
                             THEN [chat_storage EXCEPT ![sid] = inputs]
                             ELSE chat_storage
          /\ run' = [node |-> "agent", messages |-> inputs, session_id |-> sid,
                     steps |-> 0, invoked |-> <<>>, turns |-> run.turns + 1]
    /\ chat_response' = NoResponse
    /\ UNCHANGED <<orchestrator_vars, service_vars, call>>

ChatRespond ==
    /\ run.node \in {"end", "raised"}
    /\ LET last_message == run.messages[Len(run.messages)]
       IN IF run.node = "raised"
          THEN /\ chat_response' = [kind |-> "error", status |-> 500]
               /\ UNCHANGED chat_storage
          ELSE IF last_message.type = "ai"
          THEN /\ chat_response' = [kind |-> "chat", status |-> 200,
                                   response |-> last_message.content]
               /\ chat_storage' =
                    [s \in DOMAIN chat_storage \cup {run.session_id} |->
                        IF s = run.session_id THEN run.messages
                        ELSE chat_storage[s]]
          ELSE /\ chat_response' = [kind |-> "apology", status |-> 200]
               /\ UNCHANGED chat_storage
    /\ run' = [node |-> "idle", messages |-> <<>>, session_id |-> "none",
               steps |-> 0, invoked |-> <<>>, turns |-> run.turns]
    /\ UNCHANGED <<orchestrator_vars, service_vars, call>>

ChatNext ==
    \/ \E sid \in ChatSessions, message \in UserMessages : StartChat(sid, message)
    \/ \E sid \in ChatSessions, message \in UserMessages :
            StartChatLegacy(sid, message)
    \/ \E r \in ModelResponses(run.messages) : call_model(r)
    \/ ModelRaises
    \/ tool_node
    \/ ChatRespond

ChatSpec == Init /\ [][ChatNext]_vars

----------------------------------------------------------------------------
(* The endpoints of backend/main_enhanced.py that read the analysis state *)
(* (read-only endpoints specification), next to POST /analyze and DELETE. *)

\* f"{n/8*100:.0f}%" for n of the eight outputs non-empty
completion(n) == <<0, 12, 25, 38, 50, 62, 75, 88, 100>>[n + 1]

\* POST /chat/stream: the state is read once, for the context of the system
\* prompt; the stream ends with a done event, or with an error event when
\* the model fails.
stream_legal_chat(sid, model_ok) ==
    /\ req = NoReq
    /\ LET state == session_storage[sid]
           context_info ==
               IF state # NoSession /\ state.jurisdiction # None
               THEN [jurisdiction |-> state.jurisdiction,
                     case_citation |-> state.case_citation,
                     themes |-> LastOrEmpty(state.classification),
                     col_issue |-> LastOrEmpty(state.col_issue)]
               ELSE [jurisdiction |-> None, case_citation |-> <<>>,
                     themes |-> "", col_issue |-> ""]
       IN response' = [kind |-> IF model_ok THEN "stream_done" ELSE "stream_error",
                       status |-> 200, session_id |-> sid,
                       context_info |-> context_info]
    /\ UNCHANGED <<session_storage, tool_execution_log, session_activity_log,
                   req, failed, disturbances, call, pending, chat_vars,
                   service_vars>>

\* GET /sessions
list_sessions ==
    /\ req = NoReq
    /\ response' =
          [kind |-> "sessions", status |-> 200,
           sessions |-> {[session_id |-> sid,
                          case_citation |-> session_storage[sid].case_citation,
                          jurisdiction |-> session_storage[sid].jurisdiction,
                          analysis_stage |-> session_storage[sid].analysis_stage,
                          completion |-> completion(completed_steps(session_storage[sid]))] :
                         sid \in {s \in Sessions : Present(s)}},
           count |-> Cardinality({s \in Sessions : Present(s)})]
    /\ UNCHANGED <<session_storage, tool_execution_log, session_activity_log,
                   req, failed, disturbances, call, pending, chat_vars,
                   service_vars>>

\* export_session answering and then dropping the session
export_session_and_clear(sid) ==
    /\ req = NoReq
    /\ IF Present(sid)
       THEN /\ response' = [kind |-> "export", status |-> 200, session_id |-> sid,
                            export |-> session_storage[sid]]
            /\ session_storage' = [session_storage EXCEPT ![sid] = NoSession]
       ELSE /\ response' = [kind |-> "export_not_found", status |-> 404,
                            session_id |-> sid]
            /\ UNCHANGED session_storage
    /\ UNCHANGED <<tool_execution_log, session_activity_log,
                   req, failed, disturbances, call, pending, chat_vars,
                   service_vars>>

\* GET /sessions/{session_id}/export
export_session(sid) ==
    /\ req = NoReq
    /\ IF Present(sid)
       THEN response' = [kind |-> "export", status |-> 200, session_id |-> sid,
                         export |-> session_storage[sid]]
       ELSE response' = [kind |-> "export_not_found", status |-> 404,
                         session_id |-> sid]
    /\ UNCHANGED <<session_storage, tool_execution_log, session_activity_log,
                   req, failed, disturbances, call, pending, chat_vars,
                   service_vars>>

\* GET /api/monitoring/tool-calls?session_id=...
get_tool_execution_log(sid) ==
    /\ req = NoReq
    /\ LET filtered_logs == SelectSeq(tool_execution_log,
                                      LAMBDA log : log.session_id = sid)
       IN response' =
            [kind |-> "tool_calls", status |-> 200, session_id |-> sid,
             total_executions |-> Len(filtered_logs),
             successful_executions |->
                 Len(SelectSeq(filtered_logs, LAMBDA log : log.status = "completed")),
             failed_executions |->
                 Len(SelectSeq(filtered_logs, LAMBDA log : log.status = "error"))]
    /\ UNCHANGED <<session_storage, tool_execution_log, session_activity_log,
                   req, failed, disturbances, call, pending, chat_vars,
                   service_vars>>

\* GET /api/monitoring/session/{session_id}
get_session_activity(sid) ==
    /\ req = NoReq
    /\ IF sid \in DOMAIN session_activity_log
       THEN response' = [kind |-> "activity", status |-> 200, session_id |-> sid,
                         total_tools |-> Len(session_activity_log[sid])]
       ELSE response' = [kind |-> "activity_not_found", status |-> 404,
                         session_id |-> sid]
    /\ UNCHANGED <<session_storage, tool_execution_log, session_activity_log,
                   req, failed, disturbances, call, pending, chat_vars,
                   service_vars>>

ReadNext ==
    \/ \E r \in RaceRequests :
          analyze_case(r.session_id, r.case_citation, r.full_text, r.pattern)
    \/ QuickJurisdiction
    \/ QuickThemes
    \/ PipelineStep
    \/ Respond
    \/ \E sid \in Sessions : clear_session(sid)
    \/ \E sid \in Sessions, model_ok \in BOOLEAN : stream_legal_chat(sid, model_ok)
    \/ list_sessions
    \/ \E sid \in Sessions : export_session(sid)
    \/ \E sid \in Sessions : get_tool_execution_log(sid)
    \/ \E sid \in Sessions : get_session_activity(sid)

ReadSpec == Init /\ [][ReadNext]_vars

----------------------------------------------------------------------------
(* Requests for two sessions, one after the other in any order           *)
(* (execution-log specification).                                        *)

LogSessions == {"s1", "s2"}

LogInit ==
    /\ session_storage = [sid \in LogSessions |-> NoSession]
    /\ tool_execution_log = <<>>
    /\ session_activity_log = [sid \in {} |-> <<>>]
    /\ req = NoReq
    /\ response = NoResponse
    /\ failed = NoFailure
    /\ disturbances = 0
    /\ call = NoCall
    /\ pending = <<>>
    /\ chat_storage = [sid \in {} |-> <<>>]
    /\ run = [node |-> "idle", messages |-> <<>>, session_id |-> "none",
              steps |-> 0, invoked |-> <<>>, turns |-> 0]
    /\ chat_response = NoResponse
    /\ db = NoDb
    /\ op = NoOp
    /\ streams = NoStreams

\* The requests: comprehensive analyses of one case and quick analyses of
\* another
LogRequests ==
    {[session_id |-> "s1", pattern |-> "comprehensive"],
     [session_id |-> "s2", pattern |-> "quick"]}

LogNext ==
    \/ \E r \in LogRequests :
          analyze_case(r.session_id, CitUSA, LongText, r.pattern)
    \/ QuickJurisdiction
    \/ QuickThemes
    \/ PipelineStep
    \/ Respond

LogSpec == LogInit /\ [][LogNext]_vars

----------------------------------------------------------------------------
(* Conversation service: the message table (services/conversation.py) *)

\* Messages of one call of save_langchain_messages_to_conversation
MaxMessages == 3

SystemMessage(content) ==
    [type |-> "system", content |-> content, tool_calls |-> <<>>,
     name |-> "", tool_call_id |-> 0]

\* Messages a caller hands to the service: each kind the service tells
\* apart, a tool message with and without a name, and a kind it skips.
HistoryMessages ==
    {HumanMessage("m1"), AIMessage("a1", <<>>),
     ToolMessage("r1", "analyze_legal_case", "tc1"),
     ToolMessage("r1", None, "tc1"),
     SystemMessage("p1")}

Histories ==
    UNION {[1..n -> HistoryMessages] : n \in 0..MaxMessages}

\* Message(...): the row of one message; id is the autoincrement key and
\* created_at the column default, one reading of the wall clock.
Message(id, conversation_id, role, content, tool_name, tool_call_id, created_at) ==
    [id |-> id, conversation_id |-> conversation_id, role |-> role,
     content |-> content, tool_name |-> tool_name,
     tool_call_id |-> tool_call_id, created_at |-> created_at]

\* The key of a new row: the table is created with an INTEGER PRIMARY KEY
\* and the default database is SQLite, which gives one more than the
\* largest key in use.
NextId(ids) ==
    IF ids = {} THEN 1
    ELSE (CHOOSE m \in ids : \A k \in ids : k <= m) + 1

\* datetime.utcnow(): the wall clock has not gone back since the last
\* reading and may not have advanced since then.
utcnow(database) == {database.clock, database.clock + 1}

add_message_to_conversation(database, conversation_id, role, content, tool_name, tool_call_id, now) ==
    [database EXCEPT
        !.rows = Append(@, Message(NextId({@[k].id : k \in DOMAIN @}),
                                   conversation_id, role, content,
                                   tool_name, tool_call_id, now)),
        !.clock = now]

\* select(Message).where(conversation_id == ...).order_by(created_at): every
\* order of the conversation's rows that is sorted by created_at; the order
\* of rows with equal created_at is not determined by the query.
get_conversation_messages(database, conversation_id) ==
    LET mine == {k \in 1..Len(database.rows) :
                    database.rows[k].conversation_id = conversation_id}
        n == Cardinality(mine)
    IN  {[k \in 1..n |-> database.rows[f[k]]] :
            f \in {g \in [1..n -> mine] :
                    /\ \A a, b \in 1..n : a # b => g[a] # g[b]
                    /\ \A a, b \in 1..n :
                        a < b => database.rows[g[a]].created_at
                                    <= database.rows[g[b]].created_at}}

\* x or "" of a nullable column
or_empty(x) == IF x = None THEN "" ELSE x

RECURSIVE messages_to_langchain_format(_)
messages_to_langchain_format(messages) ==
    IF messages = <<>> THEN <<>>
    ELSE LET msg == Head(messages)
             rest == messages_to_langchain_format(Tail(messages))
         IN  IF msg.role = "user" THEN <<HumanMessage(msg.content)>> \o rest
             ELSE IF msg.role = "assistant"
                  THEN <<AIMessage(msg.content, <<>>)>> \o rest
             ELSE IF msg.role = "tool"
                  THEN <<ToolMessage(msg.content, or_empty(msg.tool_name),
                                     or_empty(msg.tool_call_id))>> \o rest
             ELSE rest

\* A caller starts save_langchain_messages_to_conversation(1, messages).
StartSave(messages) ==
    /\ op.pc = "idle"
    /\ Len(db.rows) + Len(messages) <= MaxMessages
    /\ op' = [pc |-> "save", conversation_id |-> 1, messages |-> messages,
              i |-> 1, before |-> Len(db.rows), result |-> <<>>]
    /\ UNCHANGED <<orchestrator_vars, chat_vars, call, db, streams>>

\* One iteration of the loop of save_langchain_messages_to_conversation.
SaveMessage ==
    /\ op.pc = "save"
    /\ op.i <= Len(op.messages)
    /\ LET msg == op.messages[op.i]
       IN  IF msg.type \in {"human", "ai", "tool"}
           THEN \E now \in utcnow(db) :
                  db' = add_message_to_conversation(
                            db, op.conversation_id,
                            CASE msg.type = "human" -> "user"
                              [] msg.type = "ai" -> "assistant"
                              [] OTHER -> "tool",
                            msg.content,
                            IF msg.type = "tool" THEN msg.name ELSE None,
                            IF msg.type = "tool" THEN msg.tool_call_id ELSE None,
                            now)
           ELSE UNCHANGED db
    /\ op' = [op EXCEPT !.i = @ + 1]
    /\ UNCHANGED <<orchestrator_vars, chat_vars, call, streams>>

\* The caller reads the history back: get_conversation_messages, then
\* messages_to_langchain_format.
LoadHistory ==
    /\ op.pc = "save"
    /\ op.i > Len(op.messages)
    /\ \E db_messages \in get_conversation_messages(db, op.conversation_id) :
         op' = [op EXCEPT !.pc = "loaded",
                          !.result = messages_to_langchain_format(db_messages)]
    /\ UNCHANGED <<orchestrator_vars, chat_vars, call, db, streams>>

\* The caller is done with the history it read.
ReturnHistory ==
    /\ op.pc = "loaded"
    /\ op' = NoOp
    /\ UNCHANGED <<orchestrator_vars, chat_vars, call, db, streams>>

ConversationNext ==
    \/ \E messages \in Histories : StartSave(messages)
    \/ SaveMessage
    \/ LoadHistory
    \/ ReturnHistory

ConversationSpec == Init /\ [][ConversationNext]_vars

----------------------------------------------------------------------------
(* Streaming chat responses: generate_stream of the three /chat/stream
   endpoints.  A generator runs from one suspension point (a yield, or an
   await of the Completion Service or of the database) to the next in one
   step; between two steps other requests of the process run. *)

\* Names of the tool calls in the chunks: a registered tool and a name that
\* is not registered
StreamToolNames == {"analyze_legal_case", "lookup_statute"}

\* The user message request p sends
MessageOf(p) == IF p = 1 THEN "m1" ELSE "m2"

\* The text the Completion Service streams in answer to it
AnswerTo(message) == IF message = "m1" THEN "a1" ELSE "a2"

\* The stream p with an event yielded to the client
Yield(stream, event) == [stream EXCEPT !.events = Append(@, event)]

\* An `except Exception` whose error event does not end the generator: the
\* loop over the chunks would go on after it.
FailedGoesOn(stream) == Yield(stream, "error")

\* The stream after the `except Exception` of generate_stream: the error
\* event is yielded and the generator returns.
Failed(stream) == [Yield(stream, "error") EXCEPT !.pc = "closed"]

\* The state of a generator at its first await of model.astream
Streaming(p, endpoint, sid) ==
    [pc |-> "streaming", endpoint |-> endpoint, session_id |-> sid,
     user |-> "none", conversation_id |-> 0,
     message |-> MessageOf(p), accumulated |-> 0, chunks |-> 0,
     tool |-> "none", calls |-> 1, events |-> <<>>, status |-> 0]

\* main_enhanced.py, POST /chat/stream: generate_stream up to model.astream
OpenEnhancedStream(p, sid) ==
    /\ streams[p].pc = "idle"
    /\ streams' = [streams EXCEPT ![p] = Streaming(p, "main_enhanced", sid)]
    /\ UNCHANGED <<orchestrator_vars, chat_vars, call, db, op>>

\* main.py, POST /chat/stream: generate_stream up to model.astream; the
\* session's list is created when the map has none, and the user message
\* appended to it.
OpenLegacyStream(p, sid) ==
    /\ streams[p].pc = "idle"
    /\ LET history == IF sid \in DOMAIN chat_storage THEN chat_storage[sid] ELSE <<>>
       IN  chat_storage' =
            [s \in DOMAIN chat_storage \cup {sid} |->
                IF s = sid THEN Append(history, HumanMessage(MessageOf(p)))
                ELSE chat_storage[s]]
    /\ streams' = [streams EXCEPT ![p] = Streaming(p, "main", sid)]
    /\ UNCHANGED <<orchestrator_vars, call, run, chat_response, db, op>>

\* A chunk with content arrives: it is added to accumulated_content and
\* yielded as a token.
TokenChunk(p) ==
    /\ streams[p].pc \in {"streaming", "follow"}
    /\ streams[p].endpoint \in {"main_enhanced", "main"}
    /\ streams[p].chunks < MaxChunks
    /\ streams' = [streams EXCEPT ![p] =
                    [Yield(@, "token") EXCEPT !.accumulated = @ + 1,
                                              !.chunks = @ + 1]]
    /\ UNCHANGED <<orchestrator_vars, chat_vars, call, db, op>>

\* main.py: a chunk with a tool call arrives; `Calling tool` is yielded.
LegacyToolChunk(p, tool_name) ==
    /\ streams[p].pc = "streaming"
    /\ streams[p].endpoint = "main"
    /\ streams[p].chunks < MaxChunks
    /\ streams' = [streams EXCEPT ![p] =
                    [Yield(@, "tool") EXCEPT !.pc = "tool", !.tool = tool_name,
                                             !.chunks = @ + 1]]
    /\ UNCHANGED <<orchestrator_vars, chat_vars, call, db, op>>

\* main.py: the generator is resumed after `Calling tool`.  A registered
\* tool is invoked and the assistant message with the call and the tool
\* message are appended to session_storage[session_id] (KeyError when the
\* session has been deleted meanwhile), and the result is yielded; a name
\* that is not registered is passed over.
LegacyToolRun(p) ==
    /\ streams[p].pc = "tool"
    /\ streams[p].endpoint = "main"
    /\ LET stream == streams[p]
           sid == stream.session_id
           tool_call == [name |-> stream.tool, args |-> ToolArgs,
                         id |-> 100 * p + stream.chunks]
       IN  IF stream.tool \notin tools_by_name
           THEN /\ streams' = [streams EXCEPT ![p] = [@ EXCEPT !.pc = "streaming"]]
                /\ UNCHANGED chat_storage
           ELSE IF sid \notin DOMAIN chat_storage
           THEN /\ streams' = [streams EXCEPT ![p] = Failed(@)]
                /\ UNCHANGED chat_storage
           ELSE /\ chat_storage' =
                    [chat_storage EXCEPT ![sid] =
                        @ \o <<AIMessage("", <<tool_call>>),
                               ToolMessage(json_dumps(invoke(stream.tool, ToolArgs)),
                                           stream.tool, tool_call.id)>>]
                /\ streams' = [streams EXCEPT ![p] =
                                [Yield(@, "tool_result") EXCEPT !.pc = "tool_result"]]
    /\ UNCHANGED <<orchestrator_vars, call, run, chat_response, db, op>>

\* main.py: the generator is resumed after the tool result: it reads
\* session_storage[session_id] again (KeyError when the session has been
\* deleted meanwhile) and streams the model's continuation.
LegacyFollowStart(p) ==
    /\ streams[p].pc = "tool_result"
    /\ streams' = [streams EXCEPT ![p] =
                    IF @.session_id \in DOMAIN chat_storage
                    THEN [@ EXCEPT !.pc = "follow", !.calls = @ + 1]
                    ELSE Failed(@)]
    /\ UNCHANGED <<orchestrator_vars, chat_vars, call, db, op>>

\* main.py: the continuation ends; the loop over the first stream goes on.
LegacyFollowEnd(p) ==
    /\ streams[p].pc = "follow"
    /\ streams' = [streams EXCEPT ![p] = [@ EXCEPT !.pc = "streaming"]]
    /\ UNCHANGED <<orchestrator_vars, chat_vars, call, db, op>>

\* model.astream raises while the generator waits for a chunk.
StreamRaises(p) ==
    /\ streams[p].pc \in {"streaming", "follow"}
    /\ streams' = [streams EXCEPT ![p] = Failed(@)]
    /\ UNCHANGED <<orchestrator_vars, chat_vars, call, db, op>>

\* main_enhanced.py: the stream of the model ends; `done` is yielded.
EnhancedStreamEnd(p) ==
    /\ streams[p].pc = "streaming"
    /\ streams[p].endpoint = "main_enhanced"
    /\ streams' = [streams EXCEPT ![p] = [Yield(@, "done") EXCEPT !.pc = "closed"]]
    /\ UNCHANGED <<orchestrator_vars, chat_vars, call, db, op>>

\* main.py: the stream of the model ends.  The accumulated content, when
\* there is any, is appended to session_storage[session_id] as the
\* assistant message (KeyError when the session has been deleted
\* meanwhile); `done` is yielded.
LegacyStreamEnd(p) ==
    /\ streams[p].pc = "streaming"
    /\ streams[p].endpoint = "main"
    /\ LET stream == streams[p]
           sid == stream.session_id
       IN  IF stream.accumulated = 0
           THEN /\ streams' = [streams EXCEPT ![p] =
                                [Yield(@, "done") EXCEPT !.pc = "closed"]]
                /\ UNCHANGED chat_storage
           ELSE IF sid \notin DOMAIN chat_storage
           THEN /\ streams' = [streams EXCEPT ![p] = Failed(@)]
                /\ UNCHANGED chat_storage
           ELSE /\ chat_storage' =
                    [chat_storage EXCEPT ![sid] =
                        Append(@, AIMessage(AnswerTo(stream.message), <<>>))]
                /\ streams' = [streams EXCEPT ![p] =
                                [Yield(@, "done") EXCEPT !.pc = "closed"]]
    /\ UNCHANGED <<orchestrator_vars, call, run, chat_response, db, op>>

\* main.py, DELETE /chat/history/{session_id}
clear_chat_history(sid) ==
    /\ sid \in DOMAIN chat_storage
    /\ chat_storage' = [s \in DOMAIN chat_storage \ {sid} |-> chat_storage[s]]
    /\ UNCHANGED <<orchestrator_vars, call, run, chat_response, service_vars>>

\* Conversations with history: routes/chat.py over services/conversation.py

Users == {"u1", "u2"}

\* request.conversation_id of a request that names no conversation
NoConversation == 0

\* Conversation ids a request can name
ConversationIds == {1}

\* ConversationService.create_conversation
create_conversation(database, user_id) ==
    [database EXCEPT !.conversations =
        @ \cup {[id |-> NextId({c.id : c \in @}), user_id |-> user_id]}]

\* ConversationService.get_conversation_by_id: the conversations with this
\* id and this owner, at most one
get_conversation_by_id(database, conversation_id, user_id) ==
    {c \in database.conversations :
        c.id = conversation_id /\ c.user_id = user_id}

\* ConversationService.delete_conversation: the conversation of this owner
\* goes, and with it (cascade="all, delete-orphan") the messages it holds.
delete_conversation(database, conversation_id, user_id) ==
    IF get_conversation_by_id(database, conversation_id, user_id) = {}
    THEN database
    ELSE [database EXCEPT
            !.conversations = {c \in @ : c.id # conversation_id},
            !.rows = SelectSeq(@, LAMBDA r : r.conversation_id # conversation_id)]

\* The user of request p
UserOf(p) == IF p = 1 THEN "u1" ELSE "u2"

\* POST /chat/stream and POST /chat of routes/chat.py are called: the
\* handler runs up to its first query.
OpenConversationRequest(p, endpoint, conversation_id) ==
    /\ streams[p].pc = "idle"
    /\ streams' = [streams EXCEPT ![p] =
                    [pc |-> "lookup", endpoint |-> endpoint, session_id |-> "none",
                     user |-> UserOf(p), conversation_id |-> conversation_id,
                     message |-> MessageOf(p), accumulated |-> 0, chunks |-> 0,
                     tool |-> "none", calls |-> 0, events |-> <<>>,
                     status |-> 0]]
    /\ UNCHANGED <<orchestrator_vars, chat_vars, call, db, op>>

\* The conversation is created, or looked up for this user; a conversation
\* that is not this user's ends the request: the stream with its error
\* event, the chat request with HTTP 500 (the 404 is raised inside the
\* handler's `try` and caught by its `except Exception`).
LookupConversation(p) ==
    /\ streams[p].pc = "lookup"
    /\ LET stream == streams[p]
       IN  IF stream.conversation_id = NoConversation
           THEN /\ db' = create_conversation(db, stream.user)
                /\ streams' = [streams EXCEPT ![p] =
                                [@ EXCEPT !.pc = "add_user",
                                          !.conversation_id =
                                              NextId({c.id : c \in db.conversations})]]
           ELSE /\ UNCHANGED db
                /\ streams' = [streams EXCEPT ![p] =
                    IF get_conversation_by_id(db, stream.conversation_id,
                                              stream.user) = {}
                    THEN IF stream.endpoint = "routes_stream"
                         THEN Failed(@)
                         ELSE [@ EXCEPT !.pc = "closed", !.status = 500]
                    ELSE [@ EXCEPT !.pc = "add_user"]]
    /\ UNCHANGED <<orchestrator_vars, chat_vars, call, op>>

\* The user message is added to the conversation whose id the request
\* holds, and the Completion Service is called: the stream awaits the first
\* chunk of model.astream, the chat request runs the graph.
AddUserMessage(p) ==
    /\ streams[p].pc = "add_user"
    /\ \E now \in utcnow(db) :
         db' = add_message_to_conversation(db, streams[p].conversation_id, "user",
                                           streams[p].message, None, None, now)
    /\ streams' = [streams EXCEPT ![p] =
                    [@ EXCEPT !.pc = IF streams[p].endpoint = "routes_stream"
                                     THEN "streaming" ELSE "graph",
                              !.calls = 1]]
    /\ UNCHANGED <<orchestrator_vars, chat_vars, call, op>>

\* routes/chat.py: a chunk with content arrives and is yielded.
ConversationChunk(p) ==
    /\ streams[p].pc = "streaming"
    /\ streams[p].endpoint = "routes_stream"
    /\ streams[p].chunks < MaxChunks
    /\ streams' = [streams EXCEPT ![p] =
                    [Yield(@, "chunk") EXCEPT !.accumulated = @ + 1,
                                              !.chunks = @ + 1]]
    /\ UNCHANGED <<orchestrator_vars, chat_vars, call, db, op>>

\* routes/chat.py: a chunk with a tool call arrives; `Using tool` is
\* yielded.
ConversationToolChunk(p, tool_name) ==
    /\ streams[p].pc = "streaming"
    /\ streams[p].endpoint = "routes_stream"
    /\ streams[p].chunks < MaxChunks
    /\ streams' = [streams EXCEPT ![p] =
                    [Yield(@, "tool") EXCEPT !.pc = "tool", !.tool = tool_name,
                                             !.chunks = @ + 1]]
    /\ UNCHANGED <<orchestrator_vars, chat_vars, call, db, op>>

\* routes/chat.py: the generator is resumed after `Using tool`: a
\* registered tool is invoked, its result added to the conversation as a
\* tool message and yielded; for a name that is not registered a
\* tool_error event is yielded.
ConversationToolRun(p) ==
    /\ streams[p].pc = "tool"
    /\ streams[p].endpoint = "routes_stream"
    /\ LET stream == streams[p]
       IN  IF stream.tool \in tools_by_name
           THEN /\ \E now \in utcnow(db) :
                    db' = add_message_to_conversation(
                            db, stream.conversation_id, "tool",
                            json_dumps(invoke(stream.tool, ToolArgs)),
                            stream.tool, "tc1", now)
                /\ streams' = [streams EXCEPT ![p] =
                                [Yield(@, "tool_result") EXCEPT !.pc = "streaming"]]
           ELSE /\ UNCHANGED db
                /\ streams' = [streams EXCEPT ![p] =
                                [Yield(@, "tool_error") EXCEPT !.pc = "streaming"]]
    /\ UNCHANGED <<orchestrator_vars, chat_vars, call, op>>

\* routes/chat.py: the stream of the model ends.  The accumulated content,
\* when there is any, is added to the conversation whose id the request
\* holds; `complete` is yielded.
ConversationStreamEnd(p) ==
    /\ streams[p].pc = "streaming"
    /\ streams[p].endpoint = "routes_stream"
    /\ IF streams[p].accumulated = 0
       THEN UNCHANGED db
       ELSE \E now \in utcnow(db) :
              db' = add_message_to_conversation(
                        db, streams[p].conversation_id, "assistant",
                        AnswerTo(streams[p].message), None, None, now)
    /\ streams' = [streams EXCEPT ![p] =
                    [Yield(@, "complete") EXCEPT !.pc = "closed"]]
    /\ UNCHANGED <<orchestrator_vars, chat_vars, call, op>>

\* routes/chat.py, POST /chat: graph.stream runs to its end without a
\* suspension.  When its last message is an assistant message, that
\* message is added to the conversation; otherwise, and when the graph
\* raises, the request ends with HTTP 500.
ConversationGraphRun(p, outcome) ==
    /\ streams[p].pc = "graph"
    /\ IF outcome = "answer"
       THEN /\ \E now \in utcnow(db) :
                db' = add_message_to_conversation(
                        db, streams[p].conversation_id, "assistant",
                        AnswerTo(streams[p].message), None, None, now)
            /\ streams' = [streams EXCEPT ![p] = [@ EXCEPT !.pc = "return"]]
       ELSE /\ UNCHANGED db
            /\ streams' = [streams EXCEPT ![p] =
                            [@ EXCEPT !.pc = "closed", !.status = 500]]
    /\ UNCHANGED <<orchestrator_vars, chat_vars, call, op>>

\* routes/chat.py, POST /chat: the conversation is read once more for its
\* title; conversation.title of a conversation that is gone raises, and the
\* request ends with HTTP 500.
ConversationReturn(p) ==
    /\ streams[p].pc = "return"
    /\ streams' = [streams EXCEPT ![p] =
                    [@ EXCEPT !.pc = "closed",
                              !.status =
                                IF get_conversation_by_id(
                                        db, streams[p].conversation_id,
                                        streams[p].user) = {}
                                THEN 500 ELSE 200]]
    /\ UNCHANGED <<orchestrator_vars, chat_vars, call, db, op>>

\* DELETE /conversations/{conversation_id} by a user
DeleteConversation(user, conversation_id) ==
    /\ op' = [pc |-> "deleted", user |-> user,
              conversation_id |-> conversation_id,
              status |-> IF get_conversation_by_id(db, conversation_id, user) = {}
                         THEN 404 ELSE 200,
              messages |-> <<>>]
    /\ db' = delete_conversation(db, conversation_id, user)
    /\ UNCHANGED <<orchestrator_vars, chat_vars, call, streams>>

\* GET /conversations/{conversation_id}/messages by a user
GetConversationMessages(user, conversation_id) ==
    /\ IF get_conversation_by_id(db, conversation_id, user) = {}
       THEN op' = [pc |-> "read", user |-> user,
                   conversation_id |-> conversation_id,
                   status |-> 404, messages |-> <<>>]
       ELSE \E messages \in get_conversation_messages(db, conversation_id) :
                op' = [pc |-> "read", user |-> user,
                       conversation_id |-> conversation_id,
                       status |-> 200, messages |-> messages]
    /\ UNCHANGED <<orchestrator_vars, chat_vars, call, db, streams>>

StreamNext ==
    \/ \E p \in StreamIds, sid \in ChatSessions : OpenLegacyStream(p, sid)
    \/ \E sid \in Sessions : OpenEnhancedStream(1, sid)
    \/ \E p \in StreamIds : TokenChunk(p)
    \/ \E p \in StreamIds, tool_name \in StreamToolNames :
            LegacyToolChunk(p, tool_name)
    \/ \E p \in StreamIds : LegacyToolRun(p)
    \/ \E p \in StreamIds : LegacyFollowStart(p)
    \/ \E p \in StreamIds : LegacyFollowEnd(p)
    \/ \E p \in StreamIds : StreamRaises(p)
    \/ \E p \in StreamIds : EnhancedStreamEnd(p)
    \/ \E p \in StreamIds : LegacyStreamEnd(p)
    \/ \E sid \in ChatSessions : clear_chat_history(sid)
    \/ \E conversation_id \in ConversationIds \cup {NoConversation} :
            OpenConversationRequest(1, "routes_stream", conversation_id)
    \/ \E p \in StreamIds : LookupConversation(p)
    \/ \E p \in StreamIds : AddUserMessage(p)
    \/ \E p \in StreamIds : ConversationChunk(p)
    \/ \E p \in StreamIds, tool_name \in StreamToolNames :
            ConversationToolChunk(p, tool_name)
    \/ \E p \in StreamIds : ConversationToolRun(p)
    \/ \E p \in StreamIds : ConversationStreamEnd(p)

StreamSpec == Init /\ [][StreamNext]_vars

\* Requests on conversations: the two chat endpoints of routes/chat.py,
\* the deletion of a conversation and the reading of its messages
OwnerNext ==
    \/ \E conversation_id \in ConversationIds \cup {NoConversation} :
            \/ OpenConversationRequest(1, "routes_stream", conversation_id)
            \/ OpenConversationRequest(2, "routes_chat", conversation_id)
    \/ \E p \in StreamIds : LookupConversation(p)
    \/ \E p \in StreamIds : AddUserMessage(p)
    \/ \E p \in StreamIds : ConversationChunk(p)
    \/ \E p \in StreamIds : ConversationStreamEnd(p)
    \/ \E p \in StreamIds : StreamRaises(p)
    \/ \E p \in StreamIds, outcome \in {"answer", "no_answer", "raise"} :
            ConversationGraphRun(p, outcome)
    \/ \E p \in StreamIds : ConversationReturn(p)
    \/ \E user \in Users, conversation_id \in ConversationIds :
            DeleteConversation(user, conversation_id)
    \/ \E user \in Users, conversation_id \in ConversationIds :
            GetConversationMessages(user, conversation_id)

OwnerSpec == Init /\ [][OwnerNext]_vars

----------------------------------------------------------------------------
(* Properties *)

\* The execute_step call of this transition is for step K.
Executed(K) ==
    /\ Len(tool_execution_log') = Len(tool_execution_log) + 1
    /\ tool_execution_log'[Len(tool_execution_log')].tool_name = K

\* The stored output of step K: empty while the step has not completed.
OutputOf(state, K) ==
    CASE K = "detect_jurisdiction" ->
            IF state.jurisdiction = None THEN <<>>
            ELSE <<state.jurisdiction, state.precise_jurisdiction>>
      [] K = "extract_col_section" -> state.col_section
      [] K = "classify_themes" -> state.classification
      [] K = "analyze_relevant_facts" -> state.relevant_facts
      [] K = "identify_pil_provisions" -> state.pil_provisions
      [] K = "identify_col_issue" -> state.col_issue
      [] K = "analyze_courts_position" -> state.courts_position
      [] K = "extract_obiter_dicta" -> state.obiter_dicta
      [] K = "extract_dissenting_opinions" -> state.dissenting_opinions
      [] K = "generate_abstract" -> state.abstract

Idle == req.pc = "idle"

\* This transition belongs to a POST /analyze with the given pattern on sid.
InAnalyze(sid, pattern) ==
    \/ req.pc # "idle" /\ req.session_id = sid /\ req.pattern = pattern
    \/ req.pc = "idle" /\ req'.pc # "idle" /\ req'.session_id = sid
       /\ req'.pattern = pattern

LastEntry == tool_execution_log[Len(tool_execution_log)]

\* C1 (idempotent resume): in every transition of a comprehensive
\* POST /analyze on a session, a step whose output is already non-empty
\* (jurisdiction set, or its list holds an element) is not executed and its
\* stored output stays what it was.
C1_IdempotentResume ==
    [][\A sid \in Sessions, K \in AllSteps :
          (/\ InAnalyze(sid, "comprehensive")
           /\ Present(sid)
           /\ OutputOf(session_storage[sid], K) # <<>>)
          => (/\ ~Executed(K)
              /\ session_storage'[sid] # NoSession
              /\ OutputOf(session_storage'[sid], K) = OutputOf(session_storage[sid], K))
      ]_vars

\* A later comprehensive request has passed the COL extraction without
\* executing it: the last execution is still the abstract of an earlier
\* request.
C1_Witness ==
    /\ req.pc = "pipeline"
    /\ req.i = 3
    /\ req.ran = 0
    /\ session_storage[req.session_id].col_section # <<>>
    /\ Len(tool_execution_log) > 0
    /\ LastEntry.tool_name = "generate_abstract"
    /\ LastEntry.status = "completed"

\* This transition is the one in which a step of the request raises.
StepRaises ==
    /\ req.pc # "idle"
    /\ req'.pc = "idle"
    /\ response'.kind = "error"

\* C2 (failure leaves the step incomplete): when step K raises, K's output
\* is empty afterwards and every stored output is what it was before; and
\* in the retry (the next POST /analyze with the pattern of the failed one)
\* the first step executed is K.
C2_FailureLeavesStepIncomplete ==
    [][/\ StepRaises =>
            LET sid == req.session_id
            IN  /\ session_storage'[sid] # NoSession
                /\ OutputOf(session_storage'[sid], failed'.step) = <<>>
                /\ \A K \in AllSteps :
                      OutputOf(session_storage'[sid], K)
                          = OutputOf(session_storage[sid], K)
       /\ (/\ req.pc # "idle"
           /\ req.ran = 0
           /\ failed.step # None
           /\ req.pattern = failed.pattern
           /\ Len(tool_execution_log') = Len(tool_execution_log) + 1)
          => Executed(failed.step)
      ]_vars

\* The families the classifier can return for the inputs of the session
ClassifierFamilies(state) ==
    {o.result.jurisdiction_type :
        o \in {x \in detect(state.case_citation, state.full_text) : x.ok}}

\* C3 (jurisdiction gating of execution): extract_obiter_dicta and
\* extract_dissenting_opinions are executed only for a session whose
\* jurisdiction is Common-law and which the classifier can have classified
\* Common-law; never for a session classified otherwise.
C3_ObiterDissentOnlyCommonLaw ==
    [][(Executed("extract_obiter_dicta") \/ Executed("extract_dissenting_opinions"))
          => LET state == session_storage[req.session_id]
             IN  /\ state.jurisdiction = COMMON_LAW
                 /\ COMMON_LAW \in ClassifierFamilies(state)
      ]_vars

\* Both steps have been executed for a common-law session.
C3_Witness ==
    /\ Len(tool_execution_log) > 0
    /\ LastEntry.tool_name = "extract_dissenting_opinions"
    /\ LastEntry.status = "completed"
    /\ Present(LastEntry.session_id)
    /\ session_storage[LastEntry.session_id].jurisdiction = COMMON_LAW
    /\ session_storage[LastEntry.session_id].obiter_dicta # <<>>

\* C4 (jurisdiction gating of values): once the analysis of a Civil-law
\* session is done, obiter_dicta and dissenting_opinions are exactly the
\* one-element list holding the not-applicable sentinel.
C4_CivilLawNotApplicableValues ==
    \A sid \in Sessions :
        (/\ Idle
         /\ Present(sid)
         /\ session_storage[sid].jurisdiction = CIVIL_LAW
         /\ session_storage[sid].analysis_done)
        => /\ session_storage[sid].obiter_dicta = <<NA_CIVIL>>
           /\ session_storage[sid].dissenting_opinions = <<NA_CIVIL>>

\* C5 (pipeline order, common law): generate_abstract is executed for a
\* Common-law session only after extract_obiter_dicta and
\* extract_dissenting_opinions have produced their outputs.
C5_AbstractAfterObiterAndDissent ==
    [][Executed("generate_abstract")
          => LET state == session_storage[req.session_id]
             IN  state.jurisdiction = COMMON_LAW
                 => /\ state.obiter_dicta # <<>>
                    /\ state.dissenting_opinions # <<>>
      ]_vars

\* Every step of the Common-law pipeline has completed.
AllStepsComplete(state) ==
    \A K \in AllSteps : OutputOf(state, K) # <<>>

\* C6 (common-law completion): when a Common-law session has completed
\* every step, the reported completion_percentage is 100 and obiter_dicta
\* and dissenting_opinions are non-empty.
C6_CommonLawCompletion ==
    \A sid \in Sessions :
        (/\ Idle
         /\ response.kind = "analysis"
         /\ response.session_id = sid
         /\ Present(sid)
         /\ session_storage[sid].jurisdiction = COMMON_LAW
         /\ AllStepsComplete(session_storage[sid]))
        => /\ response.completion_percentage = Percent(100)
           /\ session_storage[sid].obiter_dicta # <<>>
           /\ session_storage[sid].dissenting_opinions # <<>>

\* C7 (civil-law completion): a comprehensive POST /analyze on a Civil-law
\* session that ends without a step failure reports 100 percent, and the
\* two common-law steps were never executed for it.
C7_CivilLawCompletion ==
    [][(/\ req.pc = "respond"
        /\ req.pattern = "comprehensive"
        /\ session_storage[req.session_id].jurisdiction = CIVIL_LAW)
          => /\ response'.kind = "analysis"
             /\ response'.completion_percentage = Percent(100)
             /\ session_storage[req.session_id].obiter_dicta = <<>>
             /\ session_storage[req.session_id].dissenting_opinions = <<>>
             /\ \A i \in 1..Len(tool_execution_log) :
                   tool_execution_log[i].jurisdiction = CIVIL_LAW
                   => tool_execution_log[i].tool_name
                          \notin {"extract_obiter_dicta", "extract_dissenting_opinions"}
      ]_vars

\* A Civil-law session has been reported complete.
C7_Witness ==
    /\ Idle
    /\ response.kind = "analysis"
    /\ response.completion_percentage = Percent(100)
    /\ Present(response.session_id)
    /\ session_storage[response.session_id].jurisdiction = CIVIL_LAW
    /\ session_storage[response.session_id].analysis_done

StageOfStep ==
    [K \in AllSteps |->
        CASE K = "detect_jurisdiction" -> "jurisdiction_detection"
          [] K = "extract_col_section" -> "col_extraction"
          [] K = "classify_themes" -> "theme_classification"
          [] K = "analyze_relevant_facts" -> "fact_analysis"
          [] K = "identify_pil_provisions" -> "pil_provisions"
          [] K = "identify_col_issue" -> "col_issue"
          [] K = "analyze_courts_position" -> "courts_position"
          [] K = "extract_obiter_dicta" -> "obiter_dicta"
          [] K = "extract_dissenting_opinions" -> "dissenting_opinions"
          [] K = "generate_abstract" -> "abstract"]

\* The pipeline of the family of the state
PipelineOf(state) == get_analysis_pipeline(JurisdictionOrCivil(state))

\* The stage the state has reached: complete when every step of its
\* pipeline has completed, else the stage of the last completed step.
ReachedStage(state) ==
    LET pipeline == PipelineOf(state)
        done == {i \in 1..Len(pipeline) : OutputOf(state, pipeline[i]) # <<>>}
    IN  IF done = 1..Len(pipeline) THEN "complete"
        ELSE StageOfStep[pipeline[CHOOSE i \in done : \A j \in done : j <= i]]

\* C8 (analysis_stage tracks progress): after a POST /analyze that
\* completed a step, analysis_stage is the stage of the last completed
\* step, and complete once every step of the pipeline has completed.
C8_StageTracksProgress ==
    \A sid \in Sessions :
        (/\ Idle
         /\ response.kind = "analysis"
         /\ response.session_id = sid
         /\ Present(sid)
         /\ \E K \in AllSteps : OutputOf(session_storage[sid], K) # <<>>)
        => /\ session_storage[sid].analysis_stage = ReachedStage(session_storage[sid])
           /\ response.stage = ReachedStage(session_storage[sid])

\* 100 * (non-empty required fields) / (required fields of the family), in
\* tenths of a percent
RequiredPercentage(state) ==
    LET pipeline == PipelineOf(state)
        done == {i \in 1..Len(pipeline) : OutputOf(state, pipeline[i]) # <<>>}
    IN  (Cardinality(done) * Percent(100)) \div Len(pipeline)

\* C9 (completion percentage formula): the percentage a POST /analyze
\* returns is 100 * (non-empty required output fields) / (required fields
\* of the jurisdiction family), obiter_dicta and dissenting_opinions being
\* required for Common-law.
C9_CompletionPercentageFormula ==
    [][req.pc = "respond"
          => response'.completion_percentage
                = RequiredPercentage(session_storage[req.session_id])
      ]_vars

\* C10 (completion monotonicity): a POST /analyze that follows a
\* successful one on the session, with no failure and no deletion in
\* between, reports a percentage not below the one reported before.
C10_CompletionMonotonic ==
    [][(/\ req.pc = "respond"
        /\ response.kind = "analysis"
        /\ response.session_id = req.session_id)
          => response'.completion_percentage >= response.completion_percentage
      ]_vars

\* A request is about to report more than the successful request before it.
C10_Witness ==
    /\ req.pc = "respond"
    /\ response.kind = "analysis"
    /\ response.session_id = req.session_id
    /\ response.completion_percentage > 0
    /\ completion_percentage(session_storage[req.session_id])
          > response.completion_percentage

\* The extraction steps: every step but the classifier and the abstract
ExtractionSteps == AllSteps \ {"detect_jurisdiction", "generate_abstract"}

\* C11 (short-input fast path): an extraction step (COL extraction, theme
\* classification, facts, provisions, issue, court's position, obiter,
\* dissent) invoked with a case text of fewer than 50 characters returns
\* without any Completion Service call.
C11_ShortInputNoCompletionCall ==
    (/\ call.tool \in ExtractionSteps
     /\ call.full_text.raw < MIN_TEXT_LENGTH)
    => /\ call.outcome.ok
       /\ call.outcome.calls = 0

\* C12 (classifier short-text rule): detect called with a text that is
\* empty or whose stripped length is below 50 returns family No court
\* decision, confidence high, method text_length, whatever the jurisdiction
\* name, and makes no Completion Service call.
C12_ShortTextRule ==
    (/\ call.tool = "detect_jurisdiction"
     /\ (call.full_text.raw = 0 \/ call.full_text.stripped < 50))
    => /\ call.outcome.ok
       /\ call.outcome.calls = 0
       /\ call.outcome.result.jurisdiction_type = NO_COURT_DECISION
       /\ call.outcome.result.confidence = "high"
       /\ call.outcome.result.method = "text_length"

\* detect has returned for a name of the table and a text of 52 characters
\* of which 49 remain when stripped.
C12_Witness ==
    /\ call.tool = "detect_jurisdiction"
    /\ Lower(call.case_citation) \in DOMAIN get_jurisdiction_mapping
    /\ call.full_text.raw >= 50
    /\ call.full_text.stripped = 49
    /\ call.outcome.ok
    /\ call.outcome.result.method = "text_length"

OccursIn(label, text) == IsSubstring(Lower(LabelChars[label]), Lower(text))

\* C14 (constrained fallback): whatever the Completion Service answers,
\* the family detect_by_llm returns is one of Civil-law jurisdiction,
\* Common-law jurisdiction and No court decision; it is a label that occurs
\* in the response, letter case ignored, when one does, and No court
\* decision when none does.  The same holds of the family detect returns
\* with method llm_analysis.
C14_ConstrainedFallback ==
    /\ call.tool = "detect_by_llm"
       => /\ call.result \in JurisdictionType
          /\ IF \E l \in JurisdictionType : OccursIn(l, call.response)
             THEN OccursIn(call.result, call.response)
             ELSE call.result = NO_COURT_DECISION
    /\ (/\ call.tool = "detect_jurisdiction"
        /\ call.outcome.ok
        /\ call.outcome.result.method = "llm_analysis")
       => call.outcome.result.jurisdiction_type \in JurisdictionType

\* detect_by_llm has answered No court decision to a response that holds
\* none of the three labels.
C14_Witness ==
    /\ call.tool = "detect_by_llm"
    /\ call.response # <<>>
    /\ \A l \in JurisdictionType : ~OccursIn(l, call.response)
    /\ call.result = NO_COURT_DECISION

\* The themes of one element of classification: the names between the
\* separators of the joined string.
ThemesOf(joined) ==
    {Split(joined)[i][1] :
        i \in {j \in 1..Len(Split(joined)) : Len(Split(joined)[j]) >= 1}}

\* The element is a join of names, each a single piece.
WellJoined(joined) ==
    \A i \in 1..Len(Split(joined)) : Len(Split(joined)[i]) = 1

\* C15 (vocabulary containment): whatever the Completion Service answers
\* (a JSON list, JSON of another type, text that is no JSON), every theme
\* theme classification returns, and so every theme stored in the
\* classification of a session, is a member of the fixed vocabulary.
C15_VocabularyContainment ==
    \A sid \in Sessions :
        Present(sid) =>
            \A i \in 1..Len(session_storage[sid].classification) :
                /\ WellJoined(session_storage[sid].classification[i])
                /\ ThemesOf(session_storage[sid].classification[i]) # {}
                /\ ThemesOf(session_storage[sid].classification[i]) \subseteq ValidThemeSet

\* A session holds the one valid theme of a response that listed it after
\* an invented one.
C15_Witness ==
    \E sid \in Sessions :
        /\ Present(sid)
        /\ session_storage[sid].classification = << <<"Party Autonomy">> >>

\* The response parses into a list that holds a valid theme.
ParsesToValidThemes(r) ==
    r.kind = "json_list" /\ valid_themes(r.items) # <<>>

\* C16 (bounded retry of theme classification): one invocation calls the
\* Completion Service at most 3 times and returns a non-empty list; what
\* it returns is the valid themes of the last response when that response
\* parses into a list holding some, else the vocabulary themes whose name
\* occurs in the last response (the substring fallback), and the safe
\* default only when none occurs.
C16_BoundedRetryThenFallback ==
    call.tool = "classify" =>
        /\ Len(call.responses) <= max_attempts
        /\ call.status = "returned" =>
              LET last == call.responses[Len(call.responses)]
              IN  /\ call.result # <<>>
                  /\ call.result =
                        IF ParsesToValidThemes(last)
                        THEN valid_themes(last.items)
                        ELSE IF themes_in_text(last.mentions) # <<>>
                        THEN themes_in_text(last.mentions)
                        ELSE <<"Cross-border Transactions">>

\* C17 (retry of provision extraction): when the response of the
\* Completion Service does not parse as a list, identify_pil_provisions
\* asks again, and returns its safe default ["NA"] only after the third
\* response that does not parse.
C17_ProvisionsRetry ==
    (/\ call.tool = "provisions"
     /\ call.status = "returned"
     /\ call.responses[Len(call.responses)].kind # "json_list")
    => /\ Len(call.responses) = max_attempts
       /\ call.result = <<JStr("NA")>>

\* C18 (structured step error): when a step raises during POST /analyze,
\* the caller receives status 500 with a detail that holds the name of the
\* failing step together with the underlying message.
C18_StepErrorNamesStep ==
    response.kind = "error" =>
        /\ response.status = 500
        /\ failed.step \in AllSteps
        /\ \E i \in 1..Len(response.detail) :
              response.detail[i] \in {LLM_ERROR, JOIN_TYPE_ERROR}
        /\ \E i \in 1..Len(response.detail) : response.detail[i] = failed.step

\* C19 (not-found outcome): a request that names a session that does not
\* exist is answered with status 404.
C19_UnknownSessionNotFound ==
    response.kind = "not_found" => response.status = 404

\* C20 (stored inputs are immutable): while a session exists, its
\* case_citation and full_text never change, whatever a later POST /analyze
\* carries; and a jurisdiction detection of a later request works on the
\* stored inputs: it stores a family the classifier can return for the
\* stored citation and text, and the stored citation as the precise
\* jurisdiction.
C20_StoredInputsImmutable ==
    [][\A sid \in Sessions :
          (Present(sid) /\ session_storage'[sid] # NoSession)
          => /\ session_storage'[sid].case_citation = session_storage[sid].case_citation
             /\ session_storage'[sid].full_text = session_storage[sid].full_text
             /\ (/\ Executed("detect_jurisdiction")
                 /\ req.session_id = sid
                 /\ session_storage'[sid].jurisdiction # None)
                => /\ session_storage'[sid].jurisdiction
                         \in ClassifierFamilies(session_storage[sid])
                   /\ session_storage'[sid].precise_jurisdiction
                         = session_storage[sid].case_citation
      ]_vars

\* A request that carries a short text has detected Common-law on a session
\* created with a long one: the detection ran on the stored text.
C20_Witness ==
    /\ req.pc # "idle"
    /\ req.ran > 0
    /\ req.full_text = ShortText
    /\ session_storage[req.session_id].full_text = LongText
    /\ session_storage[req.session_id].jurisdiction = COMMON_LAW
    /\ LastEntry.tool_name = "detect_jurisdiction"
    /\ LastEntry.status = "completed"

\* C21 (jurisdiction is set once): once the jurisdiction of a session has
\* a value, no POST /analyze, quick or comprehensive, assigns it again or
\* executes detect_jurisdiction for that session, as long as the session
\* exists.
C21_JurisdictionSetOnce ==
    [][\A sid \in Sessions :
          (/\ Present(sid)
           /\ session_storage[sid].jurisdiction # None)
          => /\ session_storage'[sid] # NoSession
                => /\ session_storage'[sid].jurisdiction
                         = session_storage[sid].jurisdiction
                   /\ session_storage'[sid].precise_jurisdiction
                         = session_storage[sid].precise_jurisdiction
             /\ (req.pc # "idle" /\ req.session_id = sid)
                => ~Executed("detect_jurisdiction")
      ]_vars

\* A quick request has passed the jurisdiction detection of a session whose
\* jurisdiction an earlier request had set, without executing anything.
C21_Witness ==
    /\ req.pc = "quick_themes"
    /\ req.ran = 0
    /\ session_storage[req.session_id].jurisdiction # None
    /\ Len(tool_execution_log) > 0
    /\ LastEntry.session_id = req.session_id

\* The steps whose output is a list
ListSteps == AllSteps \ {"detect_jurisdiction"}

\* C22 (at most one element per step): whatever requests have been issued
\* one after the other on a session, of whatever pattern and with or
\* without failures, each of its output lists holds no or one element.
C22_AtMostOneElementPerStep ==
    \A sid \in Sessions :
        Present(sid) =>
            \A K \in ListSteps : Len(OutputOf(session_storage[sid], K)) <= 1

\* A comprehensive request has gone through the whole pipeline of a
\* complete session without executing a step: every list it met keeps its
\* one element.
C22_Witness ==
    /\ req.pc = "respond"
    /\ req.pattern = "comprehensive"
    /\ req.ran = 0
    /\ Len(session_storage[req.session_id].abstract) = 1
    /\ Len(session_storage[req.session_id].col_section) = 1
    /\ Len(session_storage[req.session_id].classification) = 1


\* A request for the session being served is accepted and waiting
SameSessionWaiting ==
    /\ req # NoReq
    /\ \E k \in 1..Len(pending) : pending[k].session_id = req.session_id

LastMessage(r) == r.messages[Len(r.messages)]

\* The run has a last message that requests a tool that is not registered
UnknownToolRequested ==
    /\ run.node = "tools"
    /\ \E i \in 1..Len(LastMessage(run).tool_calls) :
          LastMessage(run).tool_calls[i].name \notin tools_by_name

\* C24: the graph starts at agent; after an agent step that returns a
\* response with tool calls the tools node runs and control returns to
\* agent, after a response without tool calls the loop ends; when it ends
\* the last message is an assistant message without tool calls.
C24_ChatLoopProtocol ==
    [][/\ (run.node = "idle" /\ run'.node # "idle") => run'.node = "agent"
       /\ (run.node = "agent" /\ Len(run'.messages) > Len(run.messages))
            => /\ LastMessage(run').type = "ai"
               /\ LastMessage(run').tool_calls # <<>> => run'.node = "tools"
               /\ LastMessage(run').tool_calls = <<>> => run'.node = "end"
       /\ run.node = "tools" => run'.node = "agent"
       /\ run'.node = "end"
            => /\ LastMessage(run').type = "ai"
               /\ LastMessage(run').tool_calls = <<>>
      ]_vars

\* C25: for a last message with n tool calls the tools node invokes the n
\* named tools once each in order and appends n tool messages, the i-th
\* with the name and the id of the i-th call, and leaves the earlier
\* messages as they were.
C25_ToolsNodeEffect ==
    [][run.node = "tools"
         => LET calls == LastMessage(run).tool_calls
                n == Len(calls)
                m == Len(run.messages)
            IN /\ Len(run'.messages) = m + n
               /\ SubSeq(run'.messages, 1, m) = run.messages
               /\ \A i \in 1..n :
                     /\ run'.messages[m + i].type = "tool"
                     /\ run'.messages[m + i].name = calls[i].name
                     /\ run'.messages[m + i].tool_call_id = calls[i].id
               /\ run'.invoked
                    = run.invoked \o [i \in 1..n |-> [name |-> calls[i].name,
                                                      id |-> calls[i].id]]
      ]_vars

\* C26: when the last message requests a tool that is not registered, the
\* tools node appends a tool message for that call and control returns to
\* agent; the chat request is not ended by an error.
C26_UnknownToolReportedInline ==
    [][UnknownToolRequested
         => /\ run'.node = "agent"
            /\ \A i \in 1..Len(LastMessage(run).tool_calls) :
                  LastMessage(run).tool_calls[i].name \notin tools_by_name
                  => \E j \in (Len(run.messages) + 1)..Len(run'.messages) :
                        /\ run'.messages[j].type = "tool"
                        /\ run'.messages[j].tool_call_id
                             = LastMessage(run).tool_calls[i].id
      ]_vars


\* C27 (completion flag): a session's analysis_done is true only with a
\* non-empty abstract list, and it becomes true only in the transition in
\* which generate_abstract is executed and completes; a failed or skipped
\* abstract step leaves it false.
C27_CompletionFlag ==
    [][\A sid \in Sessions :
          (session_storage'[sid] # NoSession /\ session_storage'[sid].analysis_done)
          => /\ session_storage'[sid].abstract # <<>>
             /\ (Present(sid) /\ session_storage[sid].analysis_done)
                \/ (/\ Executed("generate_abstract")
                    /\ tool_execution_log'[Len(tool_execution_log')].status = "completed"
                    /\ req.session_id = sid)
      ]_vars

C27_Witness ==
    /\ req.pc = "respond"
    /\ req.ran > 0
    /\ session_storage[req.session_id].analysis_done
    /\ Len(session_storage[req.session_id].abstract) = 1


\* C28 (service failures are not swallowed): a call of a classifier or
\* extraction tool during which the Completion Service fails ends as a
\* failure of the call, never with a result value.
C28_ServiceFailurePropagates ==
    (/\ call.tool = "detect_legal_system_type"
     /\ call.outcome.calls > 0
     /\ ~call.completion.ok)
        => ~call.outcome.ok


AnalyzeStep == req # NoReq \/ req' # NoReq

\* The transition is the answer of one of the reading endpoints
ReadStep ==
    /\ req = NoReq
    /\ req' = NoReq
    /\ response'.kind \in {"stream_done", "stream_error", "sessions", "export",
                           "export_not_found", "tool_calls", "activity",
                           "activity_not_found"}
    /\ response' # response

\* C30 (only the orchestrator mutates analysis state): a transition that
\* changes session_storage, the map or a state in it, is a step of POST
\* /analyze or a DELETE /sessions/{id}; the chat stream, the session list,
\* the export and the monitoring endpoints leave it unchanged.
C30_OnlyOrchestratorMutates ==
    [][/\ session_storage' # session_storage
            => AnalyzeStep \/ \E sid \in Sessions : clear_session(sid)
       /\ ReadStep => session_storage' = session_storage
      ]_vars

\* An export has answered for a session that holds results.
C30_Witness ==
    /\ req = NoReq
    /\ response.kind = "export"
    /\ Present(response.session_id)
    /\ session_storage[response.session_id].classification # <<>>
    /\ response.export = session_storage[response.session_id]


\* The entries of the process-wide log that belong to session sid
EntriesOf(log, sid) == SelectSeq(log, LAMBDA e : e.session_id = sid)

\* C31 (execution log accounting): a call of execute_step appends one entry
\* to the process-wide log and one to the log of its session, the entry
\* carries the session and the step of the call and, once the call has
\* returned or raised, the status completed or error; no entry appended by
\* an earlier call, of this or of another session, is rewritten, and no
\* entry is left with the status started.
C31_ExecutionLogAccounting ==
    [][LET n == Len(tool_execution_log)
           sid == req.session_id
           had == IF sid \in DOMAIN session_activity_log
                  THEN session_activity_log[sid] ELSE <<>>
       IN  /\ Len(tool_execution_log') \in {n, n + 1}
           /\ SubSeq(tool_execution_log', 1, n) = tool_execution_log
           /\ \A s \in DOMAIN session_activity_log :
                 /\ s \in DOMAIN session_activity_log'
                 /\ SubSeq(session_activity_log'[s], 1, Len(session_activity_log[s]))
                      = session_activity_log[s]
           /\ (req # NoReq /\ req' # NoReq /\ req'.ran > req.ran)
                 => Len(tool_execution_log') = n + 1
           /\ (req # NoReq /\ failed' # failed /\ failed' # NoFailure)
                 => Len(tool_execution_log') = n + 1
           /\ Len(tool_execution_log') = n
                 => session_activity_log' = session_activity_log
           /\ Len(tool_execution_log') = n + 1
                 => /\ tool_execution_log'[n + 1].session_id = sid
                    /\ tool_execution_log'[n + 1].status \in {"completed", "error"}
                    /\ req' # NoReq => tool_execution_log'[n + 1].status = "completed"
                    /\ tool_execution_log'[n + 1].status = "error" => req' = NoReq
                    /\ session_activity_log'[sid]
                         = Append(had, tool_execution_log'[n + 1])
                    /\ \A s \in DOMAIN session_activity_log \ {sid} :
                          session_activity_log'[s] = session_activity_log[s]
           /\ \A s \in DOMAIN session_activity_log' :
                 session_activity_log'[s] = EntriesOf(tool_execution_log', s)
           /\ \A k \in 1..Len(tool_execution_log') :
                 tool_execution_log'[k].status # "started"
      ]_vars

\* Calls of the two sessions alternate in the process-wide log, and a call
\* has raised.
C31_Witness ==
    /\ Len(tool_execution_log) >= 3
    /\ \E i, j, k \in 1..Len(tool_execution_log) :
          /\ i < j /\ j < k
          /\ tool_execution_log[i].session_id = "s1"
          /\ tool_execution_log[j].session_id = "s2"
          /\ tool_execution_log[k].session_id = "s1"
    /\ \E k \in 1..Len(tool_execution_log) : tool_execution_log[k].status = "error"


\* (role, content, tool name, tool_call_id) of a message
MessageTuple(msg) ==
    <<msg.type, msg.content,
      IF msg.type = "tool" THEN msg.name ELSE None,
      IF msg.type = "tool" THEN msg.tool_call_id ELSE None>>

MessageTuples(messages) == [k \in 1..Len(messages) |-> MessageTuple(messages[k])]

\* The messages of a list that the service stores
Stored(messages) ==
    SelectSeq(messages, LAMBDA msg : msg.type \in {"human", "ai", "tool"})

\* C32: a list of user, assistant and tool messages saved with
\* save_langchain_messages_to_conversation and read back with
\* get_conversation_messages and messages_to_langchain_format comes back as
\* the same sequence of (role, content, tool name, tool_call_id), in the
\* same order, after the history the conversation had before; messages of
\* other kinds are not stored.
C32_HistoryRoundTrip ==
    op.pc = "loaded" =>
        /\ Len(db.rows) = op.before + Len(Stored(op.messages))
        /\ Len(op.result) = Len(db.rows)
        /\ SubSeq(MessageTuples(op.result), op.before + 1, Len(op.result))
            = MessageTuples(Stored(op.messages))


\* Steps of a call of the one-shot analysis tool during which the
\* Completion Service failed
FailedSteps ==
    {i \in 1..Len(call.invoked) :
        call.results[call.invoked[i]].branch \in {"Analysis Error", "**Error:**"}}

\* C33 (partial-failure tolerance of the one-shot analysis tool): a call of
\* streaming_analyze_legal_case on a non-blank text invokes all six steps
\* in the order of the list, whatever fails; a step that fails leaves an
\* error result and does not count in completed_steps, so completed_steps
\* is the number of steps that did not fail and is at most six; and each
\* step is given the results of the earlier steps it depends on.
C33_PartialFailureTolerance ==
    (/\ call.tool = "streaming_analyze_legal_case"
     /\ call.case_details.stripped > 0)
        => /\ call.invoked = analysis_steps
           /\ call.completed_steps <= Len(analysis_steps)
           /\ call.completed_steps
                = Len(analysis_steps) - Cardinality(FailedSteps)
           /\ \A i \in 1..Len(call.invoked) :
                call.args[i] = step_args(call.invoked[i], call.results)


\* Keys of the table that hold the name or are held by it
PartialKeys(lower) ==
    {k \in DOMAIN get_jurisdiction_mapping :
        IsSubstring(k, lower) \/ IsSubstring(lower, k)}

\* C34 (deterministic name matching): detect_by_name returns the family of
\* the lower-cased name when it is a key of the table; otherwise the family
\* of a key that holds the name or is held by it, and nothing when there is
\* no such key; and the value returned is the same in every order in which
\* the table can yield its keys, also for a name that holds a civil-law
\* key and a common-law key.
C34_NameMatchDeterministic ==
    call.tool = "detect_by_name" =>
        LET name == call.jurisdiction_name
            lower == Lower(name)
            mapping == get_jurisdiction_mapping
        IN  /\ (name # <<>> /\ lower \notin NullNames /\ lower \in DOMAIN mapping)
                => call.outcome = mapping[lower]
            /\ (name # <<>> /\ lower \notin NullNames /\ lower \notin DOMAIN mapping)
                => /\ call.outcome = None <=> PartialKeys(lower) = {}
                   /\ call.outcome # None
                        => \E k \in PartialKeys(lower) : call.outcome = mapping[k]
            /\ \A order \in TableOrders :
                    detect_by_name_in(name, order) = call.outcome

C34_Witness ==
    /\ call.tool = "detect_by_name"
    /\ call.jurisdiction_name = GeorgiaUSA
    /\ {get_jurisdiction_mapping[k] : k \in PartialKeys(Lower(GeorgiaUSA))}
            = {CIVIL_LAW, COMMON_LAW}
    /\ call.order[1] # <<"g", "e", "o", "r", "g", "i", "a">>
    /\ call.outcome = CIVIL_LAW


\* The patterns analyze_case has no branch for
NoBranchPatterns == {"sequential", "parallel"}

StoredHistory(storage, sid) ==
    IF sid \in DOMAIN storage THEN storage[sid] ELSE <<>>

\* The history a chat turn started from: the messages of the run before
\* the user message of the request, the last user message of the run
BeforeTurn(messages) ==
    LET humans == {k \in 1..Len(messages) : messages[k].type = "human"}
        last == CHOOSE k \in humans : \A j \in humans : j <= k
    IN  SubSeq(messages, 1, last - 1)

\* C36 (legacy chat turn atomicity): when a legacy chat request ends
\* because the graph raised, or without a final assistant message, the
\* stored history of its session is what it was before the request, for a
\* new session and for one that has a history; the user message is kept
\* only together with its response.
C36_ChatTurnAtomic ==
    [][(/\ run.node \in {"end", "raised"}
        /\ run'.node = "idle"
        /\ chat_response'.kind # "chat")
            => StoredHistory(chat_storage', run.session_id)
                    = BeforeTurn(run.messages)
      ]_vars

\* The endpoints that answer with a stream of events
StreamEndpoints == {"main_enhanced", "main", "routes_stream"}

\* The events that end a stream: the completion events and the error event
TerminalEvents == {"done", "complete", "error"}

\* The events that carry a piece of the answer
TokenEvents == {"token", "chunk"}

\* The positions of the terminal events among the events of request p
TerminalsOf(p) ==
    {i \in 1..Len(streams[p].events) : streams[p].events[i] \in TerminalEvents}

\* C37: stream termination.  A streaming chat response emits at most one
\* terminal event while it runs and exactly one by the time its generator
\* has returned; the terminal event is the last event, no completion event
\* follows an error event and no token follows the terminal event.
C37_StreamTermination ==
    \A p \in StreamIds :
        (streams[p].pc # "idle" /\ streams[p].endpoint \in StreamEndpoints) =>
            LET events == streams[p].events
            IN  /\ Cardinality(TerminalsOf(p)) <= 1
                /\ \A i \in TerminalsOf(p) : i = Len(events)
                /\ (streams[p].pc = "closed") <=> (Cardinality(TerminalsOf(p)) = 1)
                /\ \A i, j \in 1..Len(events) :
                        (i < j /\ events[i] = "error")
                            => events[j] \notin {"done", "complete"}
                /\ \A i, j \in 1..Len(events) :
                        (i < j /\ events[i] \in TerminalEvents)
                            => events[j] \notin TokenEvents

\* A response that streamed a token and then failed has closed with the
\* error event as its last event.
C37_Witness ==
    \E p \in StreamIds :
        /\ streams[p].pc = "closed"
        /\ streams[p].endpoint \in StreamEndpoints
        /\ Len(streams[p].events) >= 2
        /\ streams[p].events[1] \in TokenEvents
        /\ streams[p].events[Len(streams[p].events)] = "error"

\* The turns of a stored history: the user messages and the assistant
\* messages with content, without the tool calls and their results
TurnsOf(history) ==
    SelectSeq(history, LAMBDA m : m.type = "human" \/ (m.type = "ai" /\ m.content # ""))

\* The request has run to its `done` event after streaming content
Completed(stream) ==
    /\ stream.pc = "closed"
    /\ stream.events[Len(stream.events)] = "done"
    /\ stream.accumulated > 0

\* Every assistant response of the history stands right after the user
\* message it answers, and the user message of every completed request that
\* is in the history is followed by its response.
TurnsPaired(requests, history) ==
    LET turns == TurnsOf(history)
    IN  \A i \in 1..Len(turns) :
            /\ turns[i].type = "ai" =>
                    /\ i > 1
                    /\ turns[i - 1].type = "human"
                    /\ turns[i].content = AnswerTo(turns[i - 1].content)
            /\ (/\ turns[i].type = "human"
                /\ \E p \in StreamIds : /\ Completed(requests[p])
                                        /\ requests[p].message = turns[i].content)
                    => /\ i < Len(turns)
                       /\ turns[i + 1].type = "ai"
                       /\ turns[i + 1].content = AnswerTo(turns[i].content)

\* Every request is a legacy stream on this session and has finished
AllFinishedOn(requests, sid) ==
    \A p \in StreamIds : /\ requests[p].pc = "closed"
                         /\ requests[p].endpoint = "main"
                         /\ requests[p].session_id = sid

\* C38: concurrent streams on one session.  When the two legacy
\* /chat/stream requests of a session have finished, however they and a
\* DELETE of the session's history interleaved, the stored history has every
\* user message followed by its own assistant response before the next user
\* message and no response is missing; and a step of a stream in flight
\* does not create the session again after it was deleted.
C38_ConcurrentStreams ==
    [][\A sid \in ChatSessions :
        /\ (/\ streams' # streams
            /\ \A p \in StreamIds : streams[p].pc = "idle" => streams'[p].pc = "idle"
            /\ sid \notin DOMAIN chat_storage)
                => sid \notin DOMAIN chat_storage'
        /\ (AllFinishedOn(streams', sid) /\ sid \in DOMAIN chat_storage')
                => TurnsPaired(streams', chat_storage'[sid])
      ]_vars

\* The conversation exists and belongs to the user
Owns(database, user, conversation_id) ==
    get_conversation_by_id(database, conversation_id, user) # {}

\* What the requests of a user write into a conversation: their messages
\* and the responses to them
WrittenFor(user) ==
    UNION {{MessageOf(p), AnswerTo(MessageOf(p))} : p \in {q \in StreamIds : UserOf(q) = user}}

\* C39: conversation ownership.  A chat request adds a message to a
\* conversation, and calls the Completion Service for it, only while the
\* conversation belongs to the requesting user; a deletion removes a
\* conversation only for its owner; and the messages a read returns are
\* those of a conversation of the reader: nothing written for another
\* user's conversation is returned.
C39_ConversationOwnership ==
    [][/\ \A p \in StreamIds :
            (/\ streams'[p] # streams[p]
             /\ \/ Len(db'.rows) > Len(db.rows)
                \/ streams[p].pc = "add_user")
                => Owns(db, streams[p].user, streams[p].conversation_id)
       /\ (op' # op /\ op'.pc = "deleted" /\ db'.conversations # db.conversations)
            => Owns(db, op'.user, op'.conversation_id)
       /\ (op' # op /\ op'.pc = "read")
            => \A k \in 1..Len(op'.messages) :
                    op'.messages[k].content \in WrittenFor(op'.user)
      ]_vars

====
